---- MODULE Spec2Model ----
(***************************************************************************)
(* Fixture generator (package generator, and the command line front-end). *)
(*                                                                         *)
(* The model follows pkg/generator: the Model of extracted declarations,   *)
(* the value synthesizer genValue / genPrimitiveValue / typeName, and the  *)
(* emission driver GenerateWithOptions with collectImports.                *)
(*                                                                         *)
(* Go strings are TLA+ strings; the text written to the bytes.Buffer is    *)
(* kept as the sequence of chunks written, one per WriteString / Fprintf.  *)
(* A Go map is a function over a finite set of strings; `range` over a map *)
(* visits the keys in an order the runtime picks, so every such loop is a  *)
(* choice over the permutations of the key set.                            *)
(***************************************************************************)
EXTENDS Integers, Sequences, FiniteSets, TLC

VARIABLES
    m,      \* the *Model handed to the generator
    opts,   \* the GenerateOptions of the calls
    arg,    \* the arguments (t, fieldName, structName) of the genValue call
    ret,    \* <<>> before the call under study (genValue, or
            \* GenerateFormattedWithOptions) returned, <<s>> once it returned s
    pkgName,\* the package name of the GenerateWithOptions calls
    outs,   \* the texts returned by the GenerateWithOptions calls so far
    src,    \* the packages given to a front-end, each with its declarations
    fe,     \* the front-end that runs: "ParseSource", "extract" or "none"
    pc,     \* where the front-end is
    pos,    \* <<package index, declaration index>> of the front-end
    err,    \* the error returned by ParseSource or
            \* GenerateFormattedWithOptions: <<>> for nil, <<text>> otherwise
    run,    \* the call of an emitted constructor that is being evaluated
    calls,  \* the generation call each goroutine is making, if any
    ExternalTypes,       \* the package variable: the external type registry
    ProtoInternalFields, \* the package variable: the reserved field names
    RequiredImports      \* the package variable: imports every external needs

\* The package variables of the generator, shared by every call in a process.
globals == <<ExternalTypes, ProtoInternalFields, RequiredImports>>

vars == <<m, opts, arg, ret, pkgName, outs, src, fe, pc, pos, err, run, calls, globals>>

---------------------------------------------------------------------------
(* Bounds of the model.                                                    *)

\* Deepest nesting of pointer/slice around a named TypeRef.
MaxDepth == 2

\* Number of GenerateWithOptions calls made on one model.
MaxCalls == 2

\* Number of type declarations in the source given to a front-end.
MaxDecls == 3

---------------------------------------------------------------------------
(* Data model.                                                             *)

\* TypeRef{Kind, Name, Elem}: Elem is <<>> for a nil pointer, <<e>> for &e.
TypeRef(kind, name, elem) == [Kind |-> kind, Name |-> name, Elem |-> elem]

NilElem == <<>>

Named(kind, name) == TypeRef(kind, name, NilElem)

PointerTo(e) == TypeRef("pointer", "", <<e>>)

\* exprToTypeRef gives a slice the name of its element, resolveType leaves it empty.
SliceOf(e, name) == TypeRef("slice", name, <<e>>)

Field(name, type) == [Name |-> name, Type |-> type]

Struct(name, fields) == [Name |-> name, Fields |-> fields]

Enum(name, values) == [Name |-> name, Values |-> values]

TypeDef(name, underlying) == [Name |-> name, Underlying |-> underlying]

\* A Go map with no entry.
EmptyMap == [k \in {} |-> ""]

Model(structs, enums, typedefs, oneofs) ==
    [Structs |-> structs, Enums |-> enums, TypeDefs |-> typedefs, OneOfs |-> oneofs]

NewModel == Model(EmptyMap, EmptyMap, EmptyMap, EmptyMap)

\* The nil *Model.
NilModel == [Nil |-> TRUE]

GenerateOptions(typePrefix, funcPrefix, modStyle) ==
    [TypePrefix |-> typePrefix, FuncPrefix |-> funcPrefix, ModStyle |-> modStyle]

\* The values the package variables are declared with.
DeclaredProtoInternalFields ==
    {"state", "unknownFields", "sizeCache", "EnforceVersion"}

ExternalType(import, value) == [Import |-> import, Value |-> value]

DeclaredExternalTypes ==
    [n \in {"Timestamp", "Time"} |->
        IF n = "Timestamp"
        THEN ExternalType("timestamppb \"google.golang.org/protobuf/types/known/timestamppb\"",
                          "timestamppb.New(time.Date(2000, 1, 1, 0, 0, 0, 0, time.UTC))")
        ELSE ExternalType("\"time\"",
                          "time.Date(2000, 1, 1, 0, 0, 0, 0, time.UTC)")]

DeclaredRequiredImports == <<"\"time\"">>

\* The package variables as the program starts.
InitGlobals ==
    /\ ExternalTypes = DeclaredExternalTypes
    /\ ProtoInternalFields = DeclaredProtoInternalFields
    /\ RequiredImports = DeclaredRequiredImports

---------------------------------------------------------------------------
(* Value synthesis.                                                        *)

\* What the Go runtime reports when the goroutine stack is exhausted; the
\* process ends and the call never returns.
StackOverflow == "fatal error: stack overflow"

NumericNames ==
    {"int", "int8", "int16", "int32", "int64",
     "uint", "uint8", "uint16", "uint32", "uint64",
     "float32", "float64", "byte", "rune"}

genPrimitiveValueAnyCase(typeName, fieldName, structName) ==
    CASE typeName = "string" ->
            IF fieldName \in {"ID", "Id", "iD", "id"}
            THEN "\"" \o structName \o "ID\""
            ELSE "\"" \o fieldName \o "\""
      [] typeName = "bool" -> "true"
      [] typeName \in NumericNames -> "1"
      [] OTHER -> "nil"

genPrimitiveValue(typeName, fieldName, structName) ==
    CASE typeName = "string" ->
            IF fieldName = "ID" \/ fieldName = "Id"
            THEN "\"" \o structName \o "ID\""
            ELSE "\"" \o fieldName \o "\""
      [] typeName = "bool" -> "true"
      [] typeName \in NumericNames -> "1"
      [] OTHER -> "nil"

prefixTypeIgnored(o, name) == name

prefixType(o, name) ==
    IF o.TypePrefix # "" THEN o.TypePrefix \o "." \o name ELSE name

RECURSIVE typeName(_, _)
typeName(t, o) ==
    LET byName == IF t.Name # "" THEN t.Name
                  ELSE IF t.Elem # NilElem THEN typeName(t.Elem[1], o)
                  ELSE "interface{}"
    IN  CASE t.Kind = "pointer" /\ t.Elem # NilElem -> "*" \o typeName(t.Elem[1], o)
          [] t.Kind = "slice" /\ t.Elem # NilElem -> "[]" \o typeName(t.Elem[1], o)
          [] t.Kind \in {"struct", "enum", "typedef"} /\ t.Name # "" -> prefixType(o, t.Name)
          [] OTHER -> byName

\* strings.Join(elems, sep)
RECURSIVE Join(_, _)
Join(elems, sep) ==
    IF elems = <<>> THEN ""
    ELSE IF Len(elems) = 1 THEN elems[1]
    ELSE elems[1] \o sep \o Join(Tail(elems), sep)

HasKey(map, k) == k \in DOMAIN map

\* len(name) > 2 && name[:2] == "is"
HasIsPrefix(name) == Len(name) > 2 /\ SubSeq(name, 1, 2) = "is"

fixtureCallNoDeref(t, o) ==
    "Fixture" \o o.FuncPrefix \o t.Name \o "()"

\* "Fixture" + opts.FuncPrefix + t.Name + "()", dereferenced in mod style
\* (the struct branch returns the same text whether or not t.Name is a TypeDef).
fixtureCall(t, o) ==
    IF o.ModStyle
    THEN "*Fixture" \o o.FuncPrefix \o t.Name \o "()"
    ELSE "Fixture" \o o.FuncPrefix \o t.Name \o "()"

Overflows(values) == \E i \in 1..Len(values) : values[i] = StackOverflow

\* genValue and the literal of a sum type's canonical member.  `stack` holds
\* the argument triples of the genValue calls that are on the Go call stack.
\* genValue is a pure function of its arguments, so a call that needs the
\* value of a call with the same arguments that is still on the stack recurses
\* without end, until the runtime stops the process with a stack overflow.
RECURSIVE genValueOn(_, _, _, _, _, _)
RECURSIVE oneofValue(_, _, _, _, _)

oneofValueEnclosing(mm, t, structName, o, stack) ==
    IF HasKey(mm.OneOfs, t.Name) /\ mm.OneOfs[t.Name] # ""
    THEN LET impl == mm.OneOfs[t.Name]
             fields == IF HasKey(mm.Structs, impl) THEN mm.Structs[impl].Fields ELSE <<>>
             values == [i \in 1..Len(fields) |->
                           genValueOn(mm, fields[i].Type, fields[i].Name, structName, o, stack)]
             structFields == [i \in 1..Len(fields) |-> fields[i].Name \o ": " \o values[i]]
         IN  IF Overflows(values) THEN StackOverflow
             ELSE IF Len(structFields) > 0
             THEN "&" \o prefixType(o, impl) \o "{\n\t\t\t"
                      \o Join(structFields, ",\n\t\t\t") \o ",\n\t\t}"
             ELSE "&" \o prefixType(o, impl) \o "{}"
    ELSE "nil"

oneofValue(mm, t, structName, o, stack) ==
    IF HasKey(mm.OneOfs, t.Name) /\ mm.OneOfs[t.Name] # ""
    THEN LET impl == mm.OneOfs[t.Name]
             fields == IF HasKey(mm.Structs, impl) THEN mm.Structs[impl].Fields ELSE <<>>
             values == [i \in 1..Len(fields) |->
                           genValueOn(mm, fields[i].Type, fields[i].Name, impl, o, stack)]
             structFields == [i \in 1..Len(fields) |-> fields[i].Name \o ": " \o values[i]]
         IN  IF Overflows(values) THEN StackOverflow
             ELSE IF Len(structFields) > 0
             THEN "&" \o prefixType(o, impl) \o "{\n\t\t\t"
                      \o Join(structFields, ",\n\t\t\t") \o ",\n\t\t}"
             ELSE "&" \o prefixType(o, impl) \o "{}"
    ELSE "nil"

\* The pointer branch of genValue.

pointerValueNoUnknownCheck(mm, t, fieldName, structName, o, stack) ==
    IF t.Elem = NilElem THEN "nil"
    ELSE LET e == t.Elem[1]
             v == genValueOn(mm, e, fieldName, structName, o, stack)
         IN  IF e.Kind = "external" /\ HasKey(ExternalTypes, e.Name)
             THEN ExternalTypes[e.Name].Value
             ELSE IF v = StackOverflow THEN StackOverflow
             ELSE IF o.ModStyle /\ e.Kind \in {"struct", "enum", "typedef"} THEN v
             ELSE "ptr(" \o v \o ")"

pointerValueAlwaysWraps(mm, t, fieldName, structName, o, stack) ==
    IF t.Elem = NilElem \/ t.Elem[1].Kind = "unknown" THEN "nil"
    ELSE LET e == t.Elem[1]
             v == genValueOn(mm, e, fieldName, structName, o, stack)
         IN  IF e.Kind = "external" /\ HasKey(ExternalTypes, e.Name)
             THEN ExternalTypes[e.Name].Value
             ELSE IF v = StackOverflow THEN StackOverflow
             ELSE "ptr(" \o v \o ")"

pointerValueWrapsExternal(mm, t, fieldName, structName, o, stack) ==
    IF t.Elem = NilElem \/ t.Elem[1].Kind = "unknown" THEN "nil"
    ELSE LET e == t.Elem[1]
             v == genValueOn(mm, e, fieldName, structName, o, stack)
         IN  IF v = StackOverflow THEN StackOverflow
             ELSE IF o.ModStyle /\ e.Kind \in {"struct", "enum", "typedef"} THEN v
             ELSE "ptr(" \o v \o ")"

pointerValue(mm, t, fieldName, structName, o, stack) ==
    IF t.Elem = NilElem \/ t.Elem[1].Kind = "unknown" THEN "nil"
    ELSE LET e == t.Elem[1]
             v == genValueOn(mm, e, fieldName, structName, o, stack)
         IN  IF e.Kind = "external" /\ HasKey(ExternalTypes, e.Name)
             THEN ExternalTypes[e.Name].Value
             ELSE IF v = StackOverflow THEN StackOverflow
             ELSE IF o.ModStyle /\ e.Kind \in {"struct", "enum", "typedef"} THEN v
             ELSE "ptr(" \o v \o ")"

\* The slice branch of genValue.
sliceValue(mm, t, fieldName, structName, o, stack) ==
    IF t.Elem = NilElem THEN "nil"
    ELSE LET v == genValueOn(mm, t.Elem[1], fieldName, structName, o, stack)
         IN  IF v = StackOverflow THEN StackOverflow
             ELSE "[]" \o typeName(t.Elem[1], o) \o "{" \o v \o "}"

genValueOn(mm, t, fieldName, structName, o, stack) ==
    IF <<t, fieldName, structName>> \in stack THEN StackOverflow
    ELSE
    LET frames == stack \cup {<<t, fieldName, structName>>}
    IN  CASE t.Kind = "primitive" -> genPrimitiveValue(t.Name, fieldName, structName)
          [] t.Kind = "struct" ->
                IF HasIsPrefix(t.Name)
                THEN oneofValue(mm, t, structName, o, frames)
                ELSE fixtureCall(t, o)
          [] t.Kind = "enum" -> fixtureCall(t, o)
          [] t.Kind = "typedef" -> fixtureCall(t, o)
          [] t.Kind = "oneof" -> oneofValue(mm, t, structName, o, frames)
          [] t.Kind = "slice" -> sliceValue(mm, t, fieldName, structName, o, frames)
          [] t.Kind = "pointer" -> pointerValue(mm, t, fieldName, structName, o, frames)
          [] t.Kind = "external" ->
                IF HasKey(ExternalTypes, t.Name) THEN ExternalTypes[t.Name].Value ELSE "nil"
          [] OTHER -> "nil"

genValue(mm, t, fieldName, structName, o) ==
    genValueOn(mm, t, fieldName, structName, o, {})

\* GenValue: the exported entry, mod style and no prefix.
GenValue(mm, t, fieldName, structName) ==
    genValue(mm, t, fieldName, structName, GenerateOptions("", "", TRUE))

---------------------------------------------------------------------------
(* Type classification by the two front-ends.                              *)

\* go/ast type expressions: Ident, StarExpr, ArrayType, SelectorExpr, and the
\* shapes exprToTypeRef does not know (MapType, ...).  X is <<>> or <<expr>>.
Expr(node, name, x) == [Node |-> node, Name |-> name, X |-> x]

Ident(name) == Expr("Ident", name, <<>>)

StarExpr(x) == Expr("StarExpr", "", <<x>>)

ArrayType(elt) == Expr("ArrayType", "", <<elt>>)

SelectorExpr(sel) == Expr("SelectorExpr", sel, <<>>)

MapType == Expr("MapType", "", <<>>)

\* The identifiers exprToTypeRef takes for primitive types.
PrimitiveIdents == NumericNames \cup {"string", "bool"}

RECURSIVE exprToTypeRef(_)
exprToTypeRef(expr) ==
    CASE expr.Node = "Ident" ->
            IF expr.Name \in PrimitiveIdents THEN Named("primitive", expr.Name)
            ELSE IF HasKey(ExternalTypes, expr.Name) THEN Named("external", expr.Name)
            ELSE Named("struct", expr.Name)
      [] expr.Node = "StarExpr" -> PointerTo(exprToTypeRef(expr.X[1]))
      [] expr.Node = "ArrayType" ->
            LET elem == exprToTypeRef(expr.X[1]) IN SliceOf(elem, elem.Name)
      [] expr.Node = "SelectorExpr" ->
            IF HasKey(ExternalTypes, expr.Name) THEN Named("external", expr.Name)
            ELSE Named("struct", expr.Name)
      [] OTHER -> Named("unknown", "")

\* go/types types: Basic, Named (with the shape of its underlying type),
\* Pointer, Slice, and the shapes resolveType does not know (Map, ...).
GoType(type, name, under, elem) ==
    [Type |-> type, Name |-> name, Under |-> under, Elem |-> elem]

BasicType(name) == GoType("Basic", name, "", <<>>)

NamedType(name, under) == GoType("Named", name, under, <<>>)

PointerType(elem) == GoType("Pointer", "", "", <<elem>>)

SliceType(elem) == GoType("Slice", "", "", <<elem>>)

MapGoType == GoType("Map", "", "", <<>>)

RECURSIVE resolveType(_)
resolveType(tt) ==
    CASE tt.Type = "Basic" -> Named("primitive", tt.Name)
      [] tt.Type = "Named" ->
            IF HasKey(ExternalTypes, tt.Name) THEN Named("external", tt.Name)
            ELSE IF tt.Under = "Struct" THEN Named("struct", tt.Name)
            ELSE IF tt.Under = "Interface" THEN Named("oneof", tt.Name)
            ELSE Named("enum", tt.Name)
      [] tt.Type = "Pointer" -> PointerTo(resolveType(tt.Elem[1]))
      [] tt.Type = "Slice" -> SliceOf(resolveType(tt.Elem[1]), "")
      [] OTHER -> Named("unknown", "")

\* The names types.Basic.Name() gives for the types a field can have: the
\* numeric types, string, bool, and unsafe.Pointer (named "Pointer").
BasicNames ==
    NumericNames \cup {"string", "bool", "uintptr", "complex64", "complex128", "Pointer"}

---------------------------------------------------------------------------
(* Extraction by the front-ends.                                           *)

\* ast.TypeSpec: Shape is the node kind of typeSpec.Type; Fields are the
\* ast.Fields of a StructType; Under is <<the Ident>> of `type Name Ident`.
TypeSpec(name, shape, fields, under) ==
    [Name |-> name, Shape |-> shape, Fields |-> fields, Under |-> under]

StructDecl(name, fields) == TypeSpec(name, "StructType", fields, <<>>)

InterfaceDecl(name) == TypeSpec(name, "InterfaceType", <<>>, <<>>)

IdentDecl(name, underName) == TypeSpec(name, "Ident", <<>>, <<Ident(underName)>>)

\* ast.Field: the names declared (none for an embedded field) and their type.
FieldDecl(names, type) == [Names |-> names, Type |-> type]

\* A constant of TypesInfo.Defs: its identifier and the name of its named
\* type ("" when its type is not a named type).
ConstDef(name, type) == [Name |-> name, Type |-> type]

\* A loaded package: the type declarations of its files, in pkg.Syntax order,
\* and the constants it defines, in source order.
Package(decls, consts) == [Decls |-> decls, Consts |-> consts]

LowerCase ==
    {"a", "b", "c", "d", "e", "f", "g", "h", "i", "j", "k", "l", "m",
     "n", "o", "p", "q", "r", "s", "t", "u", "v", "w", "x", "y", "z"}

\* name[0] >= 'a' && name[0] <= 'z'
IsUnexported(name) == SubSeq(name, 1, 1) \in LowerCase

Put(map, k, v) == [x \in DOMAIN map \cup {k} |-> IF x = k THEN v ELSE map[x]]

\* The scan of parentName from Go index i down to 0: whether some separator
\* at or below i has name start with parentName[:i] followed by '_'.
RECURSIVE scanSeparators(_, _, _)
scanSeparators(name, parentName, i) ==
    IF i < 0 THEN FALSE
    ELSE IF /\ SubSeq(parentName, i + 1, i + 1) = "_"
            /\ Len(name) > i
            /\ SubSeq(name, 1, i) = SubSeq(parentName, 1, i)
            /\ SubSeq(name, i + 1, i + 1) = "_"
         THEN TRUE
         ELSE scanSeparators(name, parentName, i - 1)

\* Whether the struct called name is taken as a member of ifaceName.
implementsOneOf(name, ifaceName) ==
    LET parentName == SubSeq(ifaceName, 3, Len(ifaceName))
    IN  scanSeparators(name, parentName, Len(parentName) - 1)

\* The loop over m.OneOfs run for the struct called name.
matchOneOfs(oneofs, name) ==
    [k \in DOMAIN oneofs |->
        IF oneofs[k] = "" /\ implementsOneOf(name, k) THEN name ELSE oneofs[k]]

\* ParseSource, first pass: every "is" interface is registered, unset.
firstPass(decls) ==
    [k \in {decls[i].Name : i \in {j \in 1..Len(decls) :
                                      /\ decls[j].Shape = "InterfaceType"
                                      /\ HasIsPrefix(decls[j].Name)}} |-> ""]

\* ParseSource, the loop over t.Fields.List.
RECURSIVE parseFields(_)
parseFields(fields) ==
    IF fields = <<>> THEN <<>>
    ELSE LET field == Head(fields)
             fieldName == field.Names[1]
         IN  IF \/ Len(field.Names) = 0
                \/ fieldName \in ProtoInternalFields
                \/ IsUnexported(fieldName)
             THEN parseFields(Tail(fields))
             ELSE <<Field(fieldName, exprToTypeRef(field.Type))>> \o parseFields(Tail(fields))

\* ParseSource, second pass, for one TypeSpec.
secondPassSpec(mm, typeSpec) ==
    LET name == typeSpec.Name
        fields == parseFields(typeSpec.Fields)
        underlying == exprToTypeRef(typeSpec.Under[1])
    IN  IF IsUnexported(name) THEN mm
        ELSE CASE typeSpec.Shape = "StructType" ->
                    [mm EXCEPT
                        !.Structs = IF Len(fields) > 0
                                    THEN Put(@, name, Struct(name, fields)) ELSE @,
                        !.OneOfs = matchOneOfs(@, name)]
               [] typeSpec.Shape = "Ident" ->
                    IF underlying.Kind = "primitive"
                    THEN [mm EXCEPT !.TypeDefs = Put(@, name, TypeDef(name, underlying))]
                    ELSE mm
               [] OTHER -> mm

\* ParseSource, the second pass over the TypeSpecs from the first one on.
RECURSIVE secondPass(_, _)
secondPass(mm, decls) ==
    IF decls = <<>> THEN mm
    ELSE secondPass(secondPassSpec(mm, Head(decls)), Tail(decls))

\* The model ParseSource returns for a source with these type declarations.
ParseSource(decls) ==
    secondPass([NewModel EXCEPT !.OneOfs = firstPass(decls)], decls)

\* A source text the parser rejects: parser.ParseFile still hands back the
\* declarations it could read (a partial *ast.File) together with the error.
BrokenSource(pkg, msg) ==
    [Decls |-> pkg.Decls, Consts |-> pkg.Consts, SyntaxError |-> msg]

\* parser.ParseFile(fset, "input.go", source, parser.ParseComments)
ParseFile(source) ==
    [Decls |-> source.Decls,
     err |-> IF "SyntaxError" \in DOMAIN source THEN <<source.SyntaxError>> ELSE <<>>]

failedParseKeepsModel(f) ==
    [m |-> ParseSource(f.Decls), err |-> <<"parse error: " \o f.err[1]>>]

\* return nil, fmt.Errorf("parse error: %w", err)
failedParse(f) ==
    [m |-> NilModel, err |-> <<"parse error: " \o f.err[1]>>]

\* pkg.TypesInfo.TypeOf(expr): the type the checker gives a field's type
\* expression, from the declarations of the package.
RECURSIVE TypeOf(_, _)
TypeOf(expr, decls) ==
    LET declared == {i \in 1..Len(decls) : decls[i].Name = expr.Name}
        decl == decls[CHOOSE i \in declared : TRUE]
    IN  CASE expr.Node = "Ident" ->
                IF expr.Name \in BasicNames THEN BasicType(expr.Name)
                ELSE IF declared = {} THEN BasicType("invalid type")
                ELSE CASE decl.Shape = "StructType" -> NamedType(expr.Name, "Struct")
                       [] decl.Shape = "InterfaceType" -> NamedType(expr.Name, "Interface")
                       [] OTHER -> NamedType(expr.Name, "Basic")
          [] expr.Node = "SelectorExpr" -> NamedType(expr.Name, "Struct")
          [] expr.Node = "StarExpr" -> PointerType(TypeOf(expr.X[1], decls))
          [] expr.Node = "ArrayType" -> SliceType(TypeOf(expr.X[1], decls))
          [] OTHER -> MapGoType

\* extractEnums, visiting the constants of TypesInfo.Defs in the given order.
RECURSIVE extractEnums(_, _, _)
extractEnums(consts, order, enums) ==
    IF order = <<>> THEN enums
    ELSE LET c == consts[Head(order)]
             e == IF HasKey(enums, c.Type) THEN enums[c.Type] ELSE Enum(c.Type, <<>>)
         IN  IF c.Name = "_" \/ c.Name = "EnforceVersion" \/ c.Type = ""
             THEN extractEnums(consts, Tail(order), enums)
             ELSE extractEnums(consts, Tail(order),
                               Put(enums, c.Type, Enum(c.Type, Append(e.Values, c.Name))))

\* extractOneOfs, for one TypeSpec.
extractOneOfsSpec(oneofs, ts) ==
    LET matched == IF ts.Shape = "StructType" THEN matchOneOfs(oneofs, ts.Name) ELSE oneofs
    IN  IF ts.Shape = "InterfaceType" /\ HasIsPrefix(ts.Name)
        THEN Put(matched, ts.Name, "")
        ELSE matched

RECURSIVE extractFieldsKeepsReserved(_, _)
extractFieldsKeepsReserved(fields, decls) ==
    IF fields = <<>> THEN <<>>
    ELSE LET field == Head(fields)
             tr == resolveType(TypeOf(field.Type, decls))
         IN  [i \in 1..Len(field.Names) |-> Field(field.Names[i], tr)]
                 \o extractFieldsKeepsReserved(Tail(fields), decls)

\* extractStructs, the loop over st.Fields.List and field.Names.
RECURSIVE extractFields(_, _)
extractFields(fields, decls) ==
    IF fields = <<>> THEN <<>>
    ELSE LET field == Head(fields)
             tr == resolveType(TypeOf(field.Type, decls))
             kept == SelectSeq(field.Names, LAMBDA n : n \notin ProtoInternalFields)
         IN  [i \in 1..Len(kept) |-> Field(kept[i], tr)] \o extractFields(Tail(fields), decls)

\* extractStructs, from declaration i of the package on.
RECURSIVE extractStructs(_, _, _)
extractStructs(decls, i, structs) ==
    IF i > Len(decls) THEN structs
    ELSE IF decls[i].Shape # "StructType" THEN extractStructs(decls, i + 1, structs)
    ELSE extractStructs(decls, i + 1,
                        Put(structs, decls[i].Name,
                            Struct(decls[i].Name, extractFields(decls[i].Fields, decls))))

---------------------------------------------------------------------------
(* Emission driver.                                                        *)

\* The orders in which `range` can visit the keys of a map.
RangeOrders(keys) ==
    {p \in [1..Cardinality(keys) -> keys] :
        \A i, j \in 1..Cardinality(keys) : i # j => p[i] # p[j]}

collectExternalTypesShallow(t) ==
    IF t.Kind = "external" THEN {t.Name} ELSE {}

RECURSIVE collectExternalTypes(_)
collectExternalTypes(t) ==
    (IF t.Kind = "external" THEN {t.Name} ELSE {})
    \cup (IF t.Elem # NilElem THEN collectExternalTypes(t.Elem[1]) ELSE {})

\* The import lines collectImports puts in importSet (a type prefix adds none).
importSetOf(mm, typePrefix) ==
    LET usedExternals ==
            UNION {UNION {collectExternalTypes(mm.Structs[n].Fields[i].Type) :
                             i \in 1..Len(mm.Structs[n].Fields)} : n \in DOMAIN mm.Structs}
    IN  IF usedExternals = {} THEN {}
        ELSE {RequiredImports[i] : i \in 1..Len(RequiredImports)}
             \cup {ExternalTypes[n].Import : n \in usedExternals \cap DOMAIN ExternalTypes}

\* collectImports: the slices it can return (nil is <<>>), one per order in
\* which the final loop visits importSet.
collectImports(mm, typePrefix) == RangeOrders(importSetOf(mm, typePrefix))

firstValueUnfiltered(values) ==
    IF values = <<>> THEN "" ELSE values[1]

\* The enum loop's firstValue: the first value that is neither "_" nor
\* "EnforceVersion", "" when there is none.
firstValue(values) ==
    LET ok == {i \in 1..Len(values) : values[i] # "_" /\ values[i] # "EnforceVersion"}
    IN  IF ok = {} THEN "" ELSE values[CHOOSE i \in ok : \A j \in ok : i <= j]

modsLoop(target) ==
    <<"\tfor _, mod := range mods {\n", "\t\tmod(" \o target \o ")\n", "\t}\n">>

modHeader(name, o) ==
    "func Fixture" \o o.FuncPrefix \o name \o "(mods ...func(*" \o prefixType(o, name)
        \o ")) *" \o prefixType(o, name) \o " {\n"

classicHeader(name, o) ==
    "func Fixture" \o o.FuncPrefix \o name \o "() " \o prefixType(o, name) \o " {\n"

\* The chunks written for one TypeDef.
typedefFixture(td, o) ==
    LET value == prefixType(o, td.Name) \o "("
                     \o genPrimitiveValue(td.Underlying.Name, td.Name, td.Name) \o ")"
    IN  (IF o.ModStyle
         THEN <<modHeader(td.Name, o), "\tresult := &" \o value \o "\n">>
                  \o modsLoop("result") \o <<"\treturn result\n">>
         ELSE <<classicHeader(td.Name, o), "\treturn " \o value \o "\n">>)
        \o <<"}\n\n">>

\* The chunks written for one Enum: none when it has no eligible value.
enumFixture(e, o) ==
    LET first == firstValue(e.Values)
    IN  IF first = "" THEN <<>>
        ELSE (IF o.ModStyle
              THEN <<modHeader(e.Name, o), "\tvalue := " \o prefixType(o, first) \o "\n">>
                       \o modsLoop("&value") \o <<"\treturn &value\n">>
              ELSE <<classicHeader(e.Name, o), "\treturn " \o prefixType(o, first) \o "\n">>)
             \o <<"}\n\n">>

fieldValues(mm, st, o) ==
    [i \in 1..Len(st.Fields) |-> genValue(mm, st.Fields[i].Type, st.Fields[i].Name, st.Name, o)]

\* The chunks written for one Struct.
structFixture(mm, st, o) ==
    LET values == fieldValues(mm, st, o)
        lines == [i \in 1..Len(st.Fields) |->
                     "\t\t" \o st.Fields[i].Name \o ": " \o values[i] \o ",\n"]
    IN  (IF o.ModStyle
         THEN <<modHeader(st.Name, o), "\tvalue := &" \o prefixType(o, st.Name) \o "{\n">>
                  \o lines \o <<"\t}\n">> \o modsLoop("value") \o <<"\treturn value\n">>
         ELSE <<classicHeader(st.Name, o), "\treturn " \o prefixType(o, st.Name) \o "{\n">>
                  \o lines \o <<"\t}\n">>)
        \o <<"}\n\n">>

RECURSIVE Flatten(_)
Flatten(seqs) == IF seqs = <<>> THEN <<>> ELSE Head(seqs) \o Flatten(Tail(seqs))

GenerateWithOptionsRecordsFirst(mm, pkg, o, imports, typedefOrder, enumOrder, structOrder) ==
    LET importBlock ==
            IF Len(imports) > 0
            THEN <<"import (\n">> \o [i \in 1..Len(imports) |-> "\t" \o imports[i] \o "\n"]
                     \o <<")\n\n">>
            ELSE <<>>
        typedefs == Flatten([i \in 1..Len(typedefOrder) |->
                                typedefFixture(mm.TypeDefs[typedefOrder[i]], o)])
        enums == Flatten([i \in 1..Len(enumOrder) |-> enumFixture(mm.Enums[enumOrder[i]], o)])
        structs == Flatten([i \in 1..Len(structOrder) |->
                               structFixture(mm, mm.Structs[structOrder[i]], o)])
    IN  IF \E n \in DOMAIN mm.Structs : Overflows(fieldValues(mm, mm.Structs[n], o))
        THEN <<StackOverflow>>
        ELSE <<"package " \o pkg \o "\n\n">> \o importBlock
                 \o <<"func ptr[T any](v T) *T { return &v }\n\n">>
                 \o structs \o enums \o typedefs

\* GenerateWithOptions for one outcome of collectImports and one visiting
\* order of each of the three maps: the chunks written to the buffer, or the
\* stack overflow of a genValue call that does not return.
GenerateWithOptions(mm, pkg, o, imports, typedefOrder, enumOrder, structOrder) ==
    LET importBlock ==
            IF Len(imports) > 0
            THEN <<"import (\n">> \o [i \in 1..Len(imports) |-> "\t" \o imports[i] \o "\n"]
                     \o <<")\n\n">>
            ELSE <<>>
        typedefs == Flatten([i \in 1..Len(typedefOrder) |->
                                typedefFixture(mm.TypeDefs[typedefOrder[i]], o)])
        enums == Flatten([i \in 1..Len(enumOrder) |-> enumFixture(mm.Enums[enumOrder[i]], o)])
        structs == Flatten([i \in 1..Len(structOrder) |->
                               structFixture(mm, mm.Structs[structOrder[i]], o)])
    IN  IF \E n \in DOMAIN mm.Structs : Overflows(fieldValues(mm, mm.Structs[n], o))
        THEN <<StackOverflow>>
        ELSE <<"package " \o pkg \o "\n\n">> \o importBlock
                 \o <<"func ptr[T any](v T) *T { return &v }\n\n">>
                 \o typedefs \o enums \o structs

\* b.String()
Text(chunks) == Join(chunks, "")

---------------------------------------------------------------------------
(* Inputs of the generator: models built directly, as the tests build them. *)

StringT == Named("primitive", "string")

IntT == Named("primitive", "int")

UserStruct ==
    Struct("User", <<Field("ID", StringT), Field("Name", StringT), Field("Age", IntT)>>)

\* The member of the test's oneofModel, with an identifier field added.
A_X == Struct("A_X", <<Field("EmailId", StringT), Field("Id", StringT)>>)

\* A record stored with no field (the command line front-end stores those).
A_Empty == Struct("A_Empty", <<>>)

\* A member whose field has the sum type it is the member of.
A_Rec == Struct("A_Rec", <<Field("Name", StringT), Field("Self", Named("oneof", "isA_B"))>>)

\* Two members that reach each other through a slice and a second sum type.
A_Mut == Struct("A_Mut", <<Field("Other", SliceOf(Named("struct", "isC_D"), "isC_D"))>>)

C_Mut == Struct("C_Mut", <<Field("Back", PointerTo(Named("oneof", "isA_B")))>>)

\* A member with nested, non recursive fields.
A_Nest ==
    Struct("A_Nest", <<Field("Inner", Named("oneof", "isC_D")),
                       Field("At", PointerTo(Named("external", "Timestamp"))),
                       Field("Owner", PointerTo(Named("struct", "User")))>>)

C_Q == Struct("C_Q", <<Field("ID", StringT)>>)

\* A record using both registered external types.
Event ==
    Struct("Event", <<Field("At", PointerTo(Named("external", "Timestamp"))),
                      Field("Seen", Named("external", "Time")),
                      Field("Tenant", Named("struct", "TenantID")),
                      Field("Status", Named("enum", "Status"))>>)

\* A record with slice fields, as in the test with a slice of structs.
Team ==
    Struct("Team", <<Field("Members", SliceOf(PointerTo(Named("struct", "User")), "User")),
                     Field("Roles", SliceOf(Named("enum", "Status"), "Status")),
                     Field("Times", SliceOf(PointerTo(Named("external", "Timestamp")), ""))>>)

\* Records that refer to themselves and to each other.
Ping ==
    Struct("Ping", <<Field("Next", PointerTo(Named("struct", "Pong"))),
                     Field("Kids", SliceOf(PointerTo(Named("struct", "Ping")), "Ping"))>>)

Pong == Struct("Pong", <<Field("Back", Named("struct", "Ping"))>>)

StructMap(structs) == [n \in {s.Name : s \in structs} |-> CHOOSE s \in structs : s.Name = n]

StatusEnum == Enum("Status", <<"_", "Status_ACTIVE", "Status_DONE">>)

ColorEnum == Enum("Color", <<"Color_RED", "EnforceVersion", "Color_BLUE">>)

\* An enumeration with only reserved values.
VersionEnum == Enum("Version", <<"EnforceVersion", "_">>)

TenantID == TypeDef("TenantID", StringT)

Count == TypeDef("Count", IntT)

Models ==
    { NewModel,
      Model(StructMap({A_X}), EmptyMap, EmptyMap, [n \in {"isA_B"} |-> "A_X"]),
      Model(StructMap({UserStruct}), EmptyMap, EmptyMap, [n \in {"isA_B"} |-> ""]),
      Model(StructMap({UserStruct}), EmptyMap, EmptyMap, [n \in {"isA_B"} |-> "A_Gone"]),
      Model(StructMap({A_Empty}), EmptyMap, EmptyMap, [n \in {"isA_B"} |-> "A_Empty"]),
      Model(StructMap({A_Rec}), EmptyMap, EmptyMap, [n \in {"isA_B"} |-> "A_Rec"]),
      Model(StructMap({A_Mut, C_Mut}), EmptyMap, EmptyMap,
            [n \in {"isA_B", "isC_D"} |-> IF n = "isA_B" THEN "A_Mut" ELSE "C_Mut"]),
      Model(StructMap({A_Nest, C_Q, UserStruct}), EmptyMap, EmptyMap,
            [n \in {"isA_B", "isC_D"} |-> IF n = "isA_B" THEN "A_Nest" ELSE "C_Q"]),
      Model(StructMap({UserStruct, Event}),
            [n \in {"Status", "Color", "Version"} |->
                CASE n = "Status" -> StatusEnum [] n = "Color" -> ColorEnum
                  [] OTHER -> VersionEnum],
            [n \in {"TenantID", "Count"} |-> IF n = "TenantID" THEN TenantID ELSE Count],
            [n \in {"isA_B"} |-> ""]),
      Model(StructMap({Event}), [n \in {"Status"} |-> StatusEnum],
            [n \in {"TenantID"} |-> TenantID], EmptyMap),
      Model(StructMap({Team}), EmptyMap, EmptyMap, EmptyMap),
      Model(StructMap({Ping, Pong}), EmptyMap, EmptyMap, EmptyMap) }

\* TypeRefs that are not a pointer or slice around another one.
BaseRefs ==
    {Named("primitive", n) : n \in BasicNames \cup {"error"}}
    \cup {Named("struct", n) : n \in {"User", "TenantID", "isA_B", "isC_D", "is"}}
    \cup {Named("enum", "Status"), Named("typedef", "TenantID")}
    \cup {Named("oneof", n) : n \in {"isA_B", "isC_D", "isNone"}}
    \cup {Named("external", n) : n \in {"Timestamp", "Time", "Duration"}}
    \cup {Named("unknown", ""), Named("map", "")}
    \cup {TypeRef("pointer", "", NilElem), TypeRef("slice", "", NilElem)}

Wrap(refs) == {PointerTo(e) : e \in refs} \cup {SliceOf(e, e.Name) : e \in refs}

RECURSIVE RefsUpTo(_)
RefsUpTo(d) == IF d = 0 THEN BaseRefs ELSE BaseRefs \cup Wrap(RefsUpTo(d - 1))

TypeRefs == RefsUpTo(MaxDepth)

FieldNames == {"ID", "Id", "id", "iD", "Name"}

StructNames == {"User", "A_X"}

OptsSet ==
    {GenerateOptions(p, f, s) : p \in {"", "pb"}, f \in {"", "PB"}, s \in BOOLEAN}

\* A nil error.
NoError == <<>>

\* No emitted constructor is being evaluated.
NoRun == [pc |-> "idle"]

\* No goroutine makes a generation call of its own.
NoCalls == <<>>

\* The models above are built directly: no front-end runs.
NoFrontEnd ==
    /\ src = <<>>
    /\ fe = "none"
    /\ pc = "done"
    /\ pos = <<0, 0>>
    /\ err = NoError

---------------------------------------------------------------------------
(* Spec: one genValue call on a model.                                     *)

Init ==
    /\ InitGlobals
    /\ calls = NoCalls
    /\ m \in Models
    /\ opts \in OptsSet
    /\ arg \in [t : TypeRefs, fieldName : FieldNames, structName : StructNames]
    /\ ret = <<>>
    /\ pkgName = ""
    /\ outs = <<>>
    /\ run = NoRun
    /\ NoFrontEnd

\* genValue(m, t, fieldName, structName, opts)
GenValueCall ==
    /\ ret = <<>>
    /\ ret' = <<genValue(m, arg.t, arg.fieldName, arg.structName, opts)>>
    /\ UNCHANGED <<globals, calls, err, run, m, opts, arg, pkgName, outs, src, fe, pc, pos>>

Next == GenValueCall

Spec == Init /\ [][Next]_vars

---------------------------------------------------------------------------
(* SpecGenerate: GenerateWithOptions called repeatedly on one model.       *)

PkgNames == {"fixtures", "main"}

NoArg == [t |-> Named("unknown", ""), fieldName |-> "", structName |-> ""]

InitGenerate ==
    /\ InitGlobals
    /\ calls = NoCalls
    /\ m \in Models
    /\ opts \in OptsSet
    /\ pkgName \in PkgNames
    /\ arg = NoArg
    /\ ret = <<>>
    /\ outs = <<>>
    /\ run = NoRun
    /\ NoFrontEnd

Crashed == \E i \in 1..Len(outs) : outs[i] = <<StackOverflow>>

\* GenerateWithOptions(m, pkgName, opts)
GenerateCall ==
    /\ Len(outs) < MaxCalls
    /\ ~Crashed
    /\ \E imports \in collectImports(m, opts.TypePrefix),
          typedefOrder \in RangeOrders(DOMAIN m.TypeDefs),
          enumOrder \in RangeOrders(DOMAIN m.Enums),
          structOrder \in RangeOrders(DOMAIN m.Structs) :
            outs' = Append(outs, GenerateWithOptions(m, pkgName, opts, imports,
                                                     typedefOrder, enumOrder, structOrder))
    /\ UNCHANGED <<globals, calls, err, run, m, opts, arg, ret, pkgName, src, fe, pc, pos>>

NextGenerate == GenerateCall

SpecGenerate == InitGenerate /\ [][NextGenerate]_vars

---------------------------------------------------------------------------
(* SpecExtract: a front-end builds the model from declarations.            *)

TimestampPtr == StarExpr(SelectorExpr("Timestamp"))

DeclPool ==
    { InterfaceDecl("isA_B"),
      InterfaceDecl("isA_B_C"),
      InterfaceDecl("Reader"),
      StructDecl("A_X", <<FieldDecl(<<"X">>, Ident("string"))>>),
      StructDecl("A_Y", <<FieldDecl(<<"state">>, Ident("int")),
                          FieldDecl(<<"At">>, TimestampPtr),
                          FieldDecl(<<"EnforceVersion">>, Ident("int")),
                          FieldDecl(<<"Lo", "Hi">>, Ident("int32"))>>),
      StructDecl("A_B_Z", <<FieldDecl(<<>>, Ident("User")),
                            FieldDecl(<<"Users">>, ArrayType(StarExpr(Ident("User")))),
                            FieldDecl(<<"hidden">>, MapType)>>),
      StructDecl("User", <<FieldDecl(<<"ID">>, Ident("string")),
                           FieldDecl(<<"Role">>, Ident("Status")),
                           FieldDecl(<<"Choice">>, Ident("isA_B"))>>),
      StructDecl("Empty", <<>>),
      IdentDecl("TenantID", "string"),
      IdentDecl("Status", "int32") }

\* The sequences of at most n distinct declarations of the pool.
RECURSIVE DeclSeqs(_)
DeclSeqs(n) ==
    IF n = 0 THEN {<<>>}
    ELSE LET shorter == DeclSeqs(n - 1)
         IN  shorter \cup {Append(ds, d) : <<ds, d>> \in
                              {<<x, y>> \in shorter \X DeclPool :
                                  /\ Len(x) = n - 1
                                  /\ \A i \in 1..Len(x) : x[i] # y}}

ConstPool ==
    { <<>>,
      <<ConstDef("_", "Status"), ConstDef("Status_ACTIVE", "Status"),
        ConstDef("Status_DONE", "Status")>>,
      <<ConstDef("EnforceVersion", "Version"), ConstDef("MaxUsers", "")>> }

\* Two packages that declare a type of the same name each, as two versions
\* of one generated package do.
VersionedPackages ==
    LET v1 == <<InterfaceDecl("isA_B"), StructDecl("A_X", <<FieldDecl(<<"X">>, Ident("string"))>>)>>
    IN  { <<Package(v1, <<>>), Package(<<InterfaceDecl("isA_B")>>, <<>>)>>,
          <<Package(v1, <<>>),
            Package(<<InterfaceDecl("isA_B"),
                      StructDecl("A_Y", <<FieldDecl(<<"Lo">>, Ident("int32"))>>)>>, <<>>)>> }

\* Files with unexported records next to a sum type of their parent, and with
\* a sum type whose parent name has no separator.
UnexportedSources ==
    { <<Package(<<InterfaceDecl("isa_B"),
                  StructDecl("a_X", <<FieldDecl(<<"X">>, Ident("string"))>>)>>, <<>>)>>,
      <<Package(<<InterfaceDecl("isAB"),
                  StructDecl("AB_X", <<FieldDecl(<<"X">>, Ident("string"))>>),
                  StructDecl("a_AB", <<FieldDecl(<<"X">>, Ident("string"))>>)>>, <<>>)>> }

InitExtract ==
    /\ InitGlobals
    /\ calls = NoCalls
    /\ fe \in {"ParseSource", "extract"}
    /\ \/ \E ds \in DeclSeqs(MaxDecls), consts \in ConstPool, k \in 0..MaxDecls,
             broken \in BOOLEAN :
             /\ k <= Len(ds)
             /\ fe = "ParseSource" => k = 0
             /\ fe = "extract" => ~broken
             /\ src = IF broken
                      THEN <<BrokenSource(Package(ds, consts), "expected declaration")>>
                      ELSE IF k = 0 \/ k = Len(ds)
                      THEN <<Package(ds, consts)>>
                      ELSE <<Package(SubSeq(ds, 1, k), consts),
                             Package(SubSeq(ds, k + 1, Len(ds)), <<>>)>>
       \/ fe = "extract" /\ src \in VersionedPackages
       \/ src \in UnexportedSources
    /\ m = NewModel
    /\ pc = IF fe = "ParseSource" THEN "pass1" ELSE "enums"
    /\ pos = <<1, 1>>
    /\ opts = GenerateOptions("", "", TRUE)
    /\ arg = NoArg
    /\ ret = <<>>
    /\ pkgName = ""
    /\ outs = <<>>
    /\ err = NoError
    /\ run = NoRun

Decls == src[pos[1]].Decls

\* ParseSource: the parser fails, nil and the wrapped error are returned.
ParseFails ==
    /\ fe = "ParseSource" /\ pc = "pass1"
    /\ ParseFile(src[1]).err # NoError
    /\ m' = failedParse(ParseFile(src[1])).m
    /\ err' = failedParse(ParseFile(src[1])).err
    /\ pc' = "failed"
    /\ UNCHANGED <<globals, calls, run, opts, arg, ret, pkgName, outs, src, fe, pos>>

\* ParseSource: the first pass over f.Decls.
ParseFirstPass ==
    /\ fe = "ParseSource" /\ pc = "pass1"
    /\ ParseFile(src[1]).err = NoError
    /\ m' = [NewModel EXCEPT !.OneOfs = firstPass(Decls)]
    /\ pc' = IF Len(Decls) = 0 THEN "done" ELSE "pass2"
    /\ UNCHANGED <<globals, calls, err, run, opts, arg, ret, pkgName, outs, src, fe, pos>>

\* ParseSource: one TypeSpec of the second pass; the model is returned after
\* the last one.
ParseSecondPassStep ==
    /\ fe = "ParseSource" /\ pc = "pass2"
    /\ m' = secondPassSpec(m, Decls[pos[2]])
    /\ pos' = <<pos[1], pos[2] + 1>>
    /\ pc' = IF pos[2] = Len(Decls) THEN "done" ELSE "pass2"
    /\ UNCHANGED <<globals, calls, err, run, opts, arg, ret, pkgName, outs, src, fe>>

\* extract: extractEnums(pkg, m) for the current package.
ExtractEnums ==
    /\ fe = "extract" /\ pc = "enums"
    /\ \E order \in RangeOrders(1..Len(src[pos[1]].Consts)) :
          m' = [m EXCEPT !.Enums = extractEnums(src[pos[1]].Consts, order, @)]
    /\ pc' = "oneofs"
    /\ pos' = <<pos[1], 1>>
    /\ UNCHANGED <<globals, calls, err, run, opts, arg, ret, pkgName, outs, src, fe>>

\* extract: one TypeSpec of extractOneOfs(pkg, m).
ExtractOneOfsStep ==
    /\ fe = "extract" /\ pc = "oneofs"
    /\ pos[2] <= Len(Decls)
    /\ m' = [m EXCEPT !.OneOfs = extractOneOfsSpec(@, Decls[pos[2]])]
    /\ pos' = <<pos[1], pos[2] + 1>>
    /\ UNCHANGED <<globals, calls, err, run, opts, arg, ret, pkgName, outs, src, fe, pc>>

\* extract: extractStructs(pkg, m) once extractOneOfs is through, then the
\* next package, or the return of the model.
ExtractStructs ==
    /\ fe = "extract" /\ pc = "oneofs"
    /\ pos[2] > Len(Decls)
    /\ m' = [m EXCEPT !.Structs = extractStructs(Decls, 1, @)]
    /\ pc' = IF pos[1] = Len(src) THEN "done" ELSE "enums"
    /\ pos' = IF pos[1] = Len(src) THEN pos ELSE <<pos[1] + 1, 1>>
    /\ UNCHANGED <<globals, calls, err, run, opts, arg, ret, pkgName, outs, src, fe>>

NextExtract ==
    \/ ParseFails
    \/ ParseFirstPass
    \/ ParseSecondPassStep
    \/ ExtractEnums
    \/ ExtractOneOfsStep
    \/ ExtractStructs

SpecExtract == InitExtract /\ [][NextExtract]_vars

---------------------------------------------------------------------------
(* SpecConstruct: an emitted constructor is called by test code.           *)
(*                                                                         *)
(* The statements of a constructor are the chunks GenerateWithOptions      *)
(* wrote between its header and its closing brace.  They are evaluated as  *)
(* Go evaluates them: `x := &T{...}` allocates an object and binds x to a  *)
(* pointer to it, `x := e` binds x to the value of e, `&e` of an operand   *)
(* that is neither addressable nor a composite literal is rejected by the  *)
(* compiler, the loop calls every mutator in turn, `return e` ends the     *)
(* call.  A mutator is known by its name only: calling it on a pointer     *)
(* records its name on what the pointer refers to.                         *)

\* Number of mutators handed to one constructor call.
MaxMods == 2

ModPool == {"setA", "setB"}

RECURSIVE ModSeqs(_)
ModSeqs(n) ==
    IF n = 0 THEN {<<>>}
    ELSE ModSeqs(n - 1)
         \cup {Append(ms, x) : <<ms, x>> \in {<<a, b>> \in ModSeqs(n - 1) \X ModPool :
                                                  Len(a) = n - 1}}

\* strings.HasPrefix / strings.HasSuffix
StartsWith(str, prefix) ==
    Len(str) >= Len(prefix) /\ SubSeq(str, 1, Len(prefix)) = prefix

EndsWith(str, suffix) ==
    Len(str) >= Len(suffix) /\ SubSeq(str, Len(str) - Len(suffix) + 1, Len(str)) = suffix

\* The first index from i on at which sub occurs in str, 0 when there is none.
RECURSIVE Find(_, _, _)
Find(str, sub, i) ==
    IF i + Len(sub) - 1 > Len(str) THEN 0
    ELSE IF SubSeq(str, i, i + Len(sub) - 1) = sub THEN i
    ELSE Find(str, sub, i + 1)

\* The chunks that open a mod-style constructor.
ModHeaders(out) ==
    {h \in 1..Len(out) : StartsWith(out[h], "func Fixture") /\ Find(out[h], "(mods ...func(", 1) > 0}

\* The statements of the constructor whose header is chunk h.
BodyOf(out, h) ==
    LET close == CHOOSE k \in (h + 1)..Len(out) :
                     /\ out[k] = "}\n\n"
                     /\ \A j \in (h + 1)..(k - 1) : out[j] # "}\n\n"
    IN  SubSeq(out, h + 1, close - 1)

\* What a variable or an object holds: a pointer to a location, or a value
\* known by the expression that built it and the mutators applied to it since.
PointerAt(loc) == [ref |-> loc, init |-> "", muts |-> <<>>]

ValueOf(expr) == [ref |-> "", init |-> expr, muts |-> <<>>]

Unset == [ref |-> "", init |-> "", muts |-> <<>>]

\* `\tx := rhs\n`: the name declared and the right-hand side.
DeclaredVar(stmt) == SubSeq(stmt, 2, Find(stmt, " := ", 1) - 1)

RightHandSide(stmt) == SubSeq(stmt, Find(stmt, " := ", 1) + 4, Len(stmt) - 1)

\* `\t\tmod(e)\n` and `\treturn e\n`: the expression e.
ModArgument(stmt) == SubSeq(stmt, 7, Len(stmt) - 2)

ReturnedExpr(stmt) == SubSeq(stmt, 9, Len(stmt) - 1)

\* A call of the constructor at header h of an output with mutators mods.
NewRun(out, h, mods) ==
    [pc |-> "build", header |-> out[h], body |-> BodyOf(out, h), ip |-> 1, mods |-> mods,
     var |-> "", store |-> [var |-> Unset, obj |-> Unset], applied |-> 0,
     passed |-> <<>>, result |-> ""]

\* The location an expression of the constructor denotes a pointer to:
\* `x` when x holds a pointer, `&x` for the variable itself.
PointerIn(r, expr) ==
    IF expr = r.var /\ r.store.var.ref # "" THEN r.store.var.ref
    ELSE IF expr = "&" \o r.var THEN "var"
    ELSE ""

\* The first statement: the short variable declaration that builds the default.
BuildStatement(r) ==
    LET stmt == r.body[r.ip]
        rhs == RightHandSide(stmt)
        closing == CHOOSE k \in r.ip..Len(r.body) :
                       /\ r.body[k] = "\t}\n"
                       /\ \A j \in r.ip..(k - 1) : r.body[j] # "\t}\n"
        literal == Join(SubSeq(r.body, r.ip, closing), "")
    IN  IF StartsWith(rhs, "&") /\ EndsWith(rhs, "{")
        THEN \* &T{ ... }: a pointer to a new object
             [r EXCEPT !.pc = "loop", !.var = DeclaredVar(stmt), !.ip = closing + 1,
                       !.store = [var |-> PointerAt("obj"), obj |-> ValueOf(literal)]]
        ELSE IF StartsWith(rhs, "&")
        THEN \* &T(v): the operand is a conversion, neither addressable nor a
             \* composite literal
             [r EXCEPT !.pc = "does not compile", !.var = DeclaredVar(stmt)]
        ELSE [r EXCEPT !.pc = "loop", !.var = DeclaredVar(stmt), !.ip = r.ip + 1,
                       !.store = [var |-> ValueOf(rhs), obj |-> Unset]]

\* One iteration of `for _, mod := range mods { mod(e) }`.
LoopIteration(r) ==
    LET loc == PointerIn(r, ModArgument(r.body[r.ip + 1]))
        mod == r.mods[r.applied + 1]
    IN  IF loc = "" THEN [r EXCEPT !.pc = "does not compile"]
        ELSE [r EXCEPT !.applied = r.applied + 1,
                       !.passed = Append(r.passed, loc),
                       !.store = [r.store EXCEPT ![loc].muts = Append(@, mod)]]

\* `return e` after the loop.
ReturnStatement(r) ==
    [r EXCEPT !.pc = "returned", !.ip = r.ip + 3,
              !.result = PointerIn(r, ReturnedExpr(r.body[r.ip + 3]))]

InitConstruct ==
    /\ InitGlobals
    /\ calls = NoCalls
    /\ m \in Models
    /\ opts \in {o \in OptsSet : o.ModStyle}
    /\ pkgName \in PkgNames
    /\ arg = NoArg
    /\ ret = <<>>
    /\ outs = <<>>
    /\ run = NoRun
    /\ NoFrontEnd

\* The fixtures file is generated once.
EmitFixtures ==
    /\ outs = <<>>
    /\ GenerateCall

\* Test code calls one of the emitted constructors with some mutators.
CallConstructor ==
    /\ outs # <<>> /\ ~Crashed
    /\ run = NoRun
    /\ \E h \in ModHeaders(outs[1]), mods \in ModSeqs(MaxMods) :
          run' = NewRun(outs[1], h, mods)
    /\ UNCHANGED <<globals, calls, m, opts, arg, ret, pkgName, outs, src, fe, pc, pos, err>>

BuildDefault ==
    /\ run.pc = "build"
    /\ run' = BuildStatement(run)
    /\ UNCHANGED <<globals, calls, m, opts, arg, ret, pkgName, outs, src, fe, pc, pos, err>>

ApplyMod ==
    /\ run.pc = "loop"
    /\ run.applied < Len(run.mods)
    /\ run' = LoopIteration(run)
    /\ UNCHANGED <<globals, calls, m, opts, arg, ret, pkgName, outs, src, fe, pc, pos, err>>

ReturnFixture ==
    /\ run.pc = "loop"
    /\ run.applied = Len(run.mods)
    /\ run' = ReturnStatement(run)
    /\ UNCHANGED <<globals, calls, m, opts, arg, ret, pkgName, outs, src, fe, pc, pos, err>>

NextConstruct ==
    \/ EmitFixtures
    \/ CallConstructor
    \/ BuildDefault
    \/ ApplyMod
    \/ ReturnFixture

SpecConstruct == InitConstruct /\ [][NextConstruct]_vars

---------------------------------------------------------------------------
(* SpecFormat: GenerateFormattedWithOptions called on a model.             *)
(*                                                                         *)
(* format.Source parses the text and prints it again in gofmt style.  Of   *)
(* what the generator writes, the parser can reject the package clause     *)
(* only (the package name is whatever the caller passes); the printer      *)
(* aligns the values of consecutive one-line `key: value,` lines of a      *)
(* composite literal and ends the file with a single newline.              *)

UpperCase ==
    {"A", "B", "C", "D", "E", "F", "G", "H", "I", "J", "K", "L", "M",
     "N", "O", "P", "Q", "R", "S", "T", "U", "V", "W", "X", "Y", "Z"}

Digits == {"0", "1", "2", "3", "4", "5", "6", "7", "8", "9"}

Keywords ==
    {"break", "case", "chan", "const", "continue", "default", "defer", "else",
     "fallthrough", "for", "func", "go", "goto", "if", "import", "interface", "map",
     "package", "range", "return", "select", "struct", "switch", "type", "var"}

\* Whether the scanner reads str as one identifier.
IsIdentifier(str) ==
    /\ Len(str) > 0
    /\ str \notin Keywords
    /\ SubSeq(str, 1, 1) \notin Digits
    /\ \A i \in 1..Len(str) :
           SubSeq(str, i, i) \in LowerCase \cup UpperCase \cup Digits \cup {"_"}

\* str followed by n spaces.
RECURSIVE PadRight(_, _)
PadRight(str, n) == IF n <= 0 THEN str ELSE PadRight(str \o " ", n - 1)

\* A chunk `\t\tKey: value,\n` whose value is on one line.
IsKeyValueLine(chunk) ==
    /\ StartsWith(chunk, "\t\t")
    /\ Find(chunk, ": ", 1) > 0
    /\ Find(chunk, "\n", 1) = Len(chunk)

KeyOf(chunk) == SubSeq(chunk, 3, Find(chunk, ": ", 1) - 1)

\* The chunks of the run of consecutive key-value lines that chunk k is in.
AlignmentSection(chunks, k) ==
    {j \in 1..Len(chunks) :
        \A i \in 1..Len(chunks) :
            (i >= (IF j < k THEN j ELSE k) /\ i <= (IF j < k THEN k ELSE j))
                => IsKeyValueLine(chunks[i])}

\* The widest key of an alignment section.
WidestKey(chunks, section) ==
    LET widths == {Len(KeyOf(chunks[j])) : j \in section}
    IN  CHOOSE w \in widths : \A v \in widths : v <= w

\* The text gofmt prints for text that parses.
gofmt(chunks) ==
    [k \in 1..Len(chunks) |->
        IF IsKeyValueLine(chunks[k])
        THEN LET key == KeyOf(chunks[k])
                 width == WidestKey(chunks, AlignmentSection(chunks, k))
             IN  "\t\t" \o PadRight(key \o ":", width - Len(key)) \o " "
                     \o SubSeq(chunks[k], Len(key) + 5, Len(chunks[k]))
        ELSE IF k = Len(chunks) /\ EndsWith(chunks[k], "\n\n")
        THEN SubSeq(chunks[k], 1, Len(chunks[k]) - 1)
        ELSE chunks[k]]

\* format.Source([]byte(out))
formatSource(chunks) ==
    LET clause == chunks[1]
        name == SubSeq(clause, Len("package ") + 1, Len(clause) - 2)
    IN  IF IsIdentifier(name)
        THEN [formatted |-> Text(gofmt(chunks)), err |-> <<>>]
        ELSE [formatted |-> "", err |-> <<"1:9: expected 'IDENT'">>]

GenerateFormattedWithOptionsPropagates(out) ==
    LET f == formatSource(out)
    IN  IF f.err # <<>> THEN [text |-> "", err |-> f.err]
        ELSE [text |-> f.formatted, err |-> <<>>]

\* GenerateFormattedWithOptions, from the text GenerateWithOptions returned.
GenerateFormattedWithOptions(out) ==
    LET f == formatSource(out)
    IN  IF f.err # <<>> THEN [text |-> Text(out), err |-> <<>>]
        ELSE [text |-> f.formatted, err |-> <<>>]

\* Package names a caller may pass (-outpkg, or the web page's field).
FormatPkgNames == PkgNames \cup {"my-pkg", "type"}

InitFormat ==
    /\ InitGlobals
    /\ calls = NoCalls
    /\ m \in Models
    /\ opts \in OptsSet
    /\ pkgName \in FormatPkgNames
    /\ arg = NoArg
    /\ ret = <<>>
    /\ outs = <<>>
    /\ run = NoRun
    /\ NoFrontEnd

\* GenerateFormattedWithOptions(m, pkgName, opts); a genValue call that does
\* not return ends the process inside GenerateWithOptions.
GenerateFormattedCall ==
    /\ ret = <<>>
    /\ \E imports \in collectImports(m, opts.TypePrefix),
          typedefOrder \in RangeOrders(DOMAIN m.TypeDefs),
          enumOrder \in RangeOrders(DOMAIN m.Enums),
          structOrder \in RangeOrders(DOMAIN m.Structs) :
            LET out == GenerateWithOptions(m, pkgName, opts, imports,
                                           typedefOrder, enumOrder, structOrder)
            IN  /\ outs' = <<out>>
                /\ IF out = <<StackOverflow>>
                   THEN ret' = <<StackOverflow>> /\ err' = err
                   ELSE /\ ret' = <<GenerateFormattedWithOptions(out).text>>
                        /\ err' = GenerateFormattedWithOptions(out).err
    /\ UNCHANGED <<globals, calls, run, m, opts, arg, pkgName, src, fe, pc, pos>>

NextFormat == GenerateFormattedCall

SpecFormat == InitFormat /\ [][NextFormat]_vars

---------------------------------------------------------------------------
(* SpecConcurrent: goroutines of one process make generation calls.        *)
(*                                                                         *)
(* Each goroutine makes one call: GenerateWithOptions, GenValue or         *)
(* collectImports, on the model m that all share or on a model of its own. *)
(* GenerateWithOptions runs in two steps, collectImports and the emitting  *)
(* loops, and other goroutines run in between.  The buffer, the import     *)
(* sets and the iteration orders are local to the call.                    *)

Goroutines == {1, 2}

\* What a generation step has written through its *Model argument when it
\* ends: the code reads m.Structs, m.Enums, m.TypeDefs and m.OneOfs and
\* assigns to none of them.
modelAfterGenerationResolving(mm) ==
    [mm EXCEPT !.OneOfs = [n \in DOMAIN mm.OneOfs |-> ""]]

modelAfterGeneration(mm) == mm

ConcurrentModels ==
    {mm \in Models : mm # NewModel /\ Cardinality(DOMAIN mm.Structs) <= 2
                                   /\ Cardinality(DOMAIN mm.Enums) <= 1}

OwnModels == {Model(StructMap({Team}), EmptyMap, EmptyMap, EmptyMap)}

ConcurrentArgs ==
    {[t |-> Named("oneof", "isA_B"), fieldName |-> "Choice", structName |-> "User"],
     [t |-> PointerTo(Named("external", "Timestamp")), fieldName |-> "At",
      structName |-> "Event"]}

Idle == [pc |-> "idle"]

\* The model a call was given: the shared one or its own.
ModelOf(c) == IF c.shared THEN m ELSE c.own

InitConcurrent ==
    /\ InitGlobals
    /\ m \in ConcurrentModels
    /\ opts \in {o \in OptsSet : o.FuncPrefix = ""}
    /\ pkgName = "fixtures"
    /\ calls = [g \in Goroutines |-> Idle]
    /\ arg = NoArg
    /\ ret = <<>>
    /\ outs = <<>>
    /\ run = NoRun
    /\ NoFrontEnd

\* A genValue call of some goroutine ended the process.
ProcessCrashed == \E g \in Goroutines : calls[g].pc = "crashed"

InCall(g) == calls[g].pc \in {"called", "imports"}

\* The model as one step of call c leaves it.
StepOn(c) ==
    /\ m' = IF c.shared THEN modelAfterGeneration(m) ELSE m
    /\ UNCHANGED globals

AfterStep(c) ==
    IF c.shared THEN c ELSE [c EXCEPT !.own = modelAfterGeneration(c.own)]

\* go GenerateWithOptions(...), go GenValue(...) or go collectImports(...)
Go(g) ==
    /\ calls[g] = Idle
    /\ ~ProcessCrashed
    /\ \E kind \in {"GenerateWithOptions", "GenValue", "collectImports"},
          shared \in BOOLEAN, own \in OwnModels, a \in ConcurrentArgs :
            calls' = [calls EXCEPT ![g] =
                        [pc |-> "called", kind |-> kind, shared |-> shared,
                         own |-> own, given |-> IF shared THEN m ELSE own,
                         arg |-> IF kind = "GenValue" THEN a ELSE NoArg,
                         during |-> {h \in Goroutines : InCall(h)},
                         imports |-> <<>>, result |-> <<>>]]
    /\ UNCHANGED <<globals, m, opts, arg, ret, pkgName, outs, src, fe, pc, pos, err, run>>

\* collectImports(m, opts.TypePrefix), called directly or as the first step
\* of GenerateWithOptions.
CollectImports(g) ==
    LET c == calls[g]
    IN  /\ c.pc = "called"
        /\ c.kind \in {"GenerateWithOptions", "collectImports"}
        /\ ~ProcessCrashed
        /\ \E imports \in collectImports(ModelOf(c), opts.TypePrefix) :
              calls' = [calls EXCEPT ![g] =
                          IF c.kind = "collectImports"
                          THEN [AfterStep(c) EXCEPT !.pc = "done", !.result = imports]
                          ELSE [AfterStep(c) EXCEPT !.pc = "imports", !.imports = imports]]
        /\ StepOn(c)
        /\ UNCHANGED <<opts, arg, ret, pkgName, outs, src, fe, pc, pos, err, run>>

\* The rest of GenerateWithOptions: the typedef, enum and struct loops.
Emit(g) ==
    LET c == calls[g]
    IN  /\ c.pc = "imports"
        /\ ~ProcessCrashed
        /\ \E typedefOrder \in RangeOrders(DOMAIN ModelOf(c).TypeDefs),
              enumOrder \in RangeOrders(DOMAIN ModelOf(c).Enums),
              structOrder \in RangeOrders(DOMAIN ModelOf(c).Structs) :
                LET out == GenerateWithOptions(ModelOf(c), pkgName, opts, c.imports,
                                               typedefOrder, enumOrder, structOrder)
                IN  calls' = [calls EXCEPT ![g] =
                        [AfterStep(c) EXCEPT
                            !.pc = IF out = <<StackOverflow>> THEN "crashed" ELSE "done",
                            !.result = [out |-> out, typedefOrder |-> typedefOrder,
                                        enumOrder |-> enumOrder,
                                        structOrder |-> structOrder]]]
        /\ StepOn(c)
        /\ UNCHANGED <<opts, arg, ret, pkgName, outs, src, fe, pc, pos, err, run>>

\* GenValue(m, t, fieldName, structName)
GenValueOf(g) ==
    LET c == calls[g]
        v == GenValue(ModelOf(c), c.arg.t, c.arg.fieldName, c.arg.structName)
    IN  /\ c.pc = "called"
        /\ c.kind = "GenValue"
        /\ ~ProcessCrashed
        /\ calls' = [calls EXCEPT ![g] =
                        [AfterStep(c) EXCEPT
                            !.pc = IF v = StackOverflow THEN "crashed" ELSE "done",
                            !.result = v]]
        /\ StepOn(c)
        /\ UNCHANGED <<opts, arg, ret, pkgName, outs, src, fe, pc, pos, err, run>>

NextConcurrent ==
    \E g \in Goroutines : Go(g) \/ CollectImports(g) \/ Emit(g) \/ GenValueOf(g)

SpecConcurrent == InitConcurrent /\ [][NextConcurrent]_vars

---------------------------------------------------------------------------
(* Properties of one genValue call (specification Spec).                   *)

\* The call ended: it returned, or the runtime stopped it.
Finished == ret # <<>>

\* The call returned a string.
Returned == Finished /\ ret[1] # StackOverflow

Quoted(str) == "\"" \o str \o "\""

OtherStyle(o) == [o EXCEPT !.ModStyle = ~o.ModStyle]

IsPointerToUnresolved(t) ==
    t.Kind = "pointer" /\ (t.Elem = NilElem \/ t.Elem[1].Kind = "unknown")

\* C1: genValue returns a non-empty string and never fails, for every model
\* and every TypeRef, in both styles.
C1_Totality ==
    Finished => /\ Returned
                /\ ret[1] # ""

\* C2: every genValue call finishes, also on models whose sum types reach
\* themselves through the fields of their canonical members.
C2_GenValueTerminates ==
    Finished => ret[1] # StackOverflow

RECURSIVE MentionsRecordKinds(_, _, _)
MentionsRecordKinds(mm, t, seen) ==
    CASE t.Kind \in {"struct", "enum", "typedef"} -> TRUE
      [] t.Kind = "oneof" ->
            /\ t.Name \notin seen
            /\ HasKey(mm.OneOfs, t.Name)
            /\ HasKey(mm.Structs, mm.OneOfs[t.Name])
            /\ \E i \in 1..Len(mm.Structs[mm.OneOfs[t.Name]].Fields) :
                   MentionsRecordKinds(mm, mm.Structs[mm.OneOfs[t.Name]].Fields[i].Type,
                                       seen \cup {t.Name})
      [] t.Kind \in {"pointer", "slice"} ->
            t.Elem # NilElem /\ MentionsRecordKinds(mm, t.Elem[1], seen)
      [] OTHER -> FALSE

C6_SumTypeSynthesis ==
    (Returned /\ arg.t.Kind = "oneof") =>
        LET S == arg.t.Name
            M == m.OneOfs[S]
            fields == m.Structs[M].Fields
            lines == [i \in 1..Len(fields) |->
                         fields[i].Name \o ": "
                             \o genValue(m, fields[i].Type, fields[i].Name, M, opts)]
        IN  IF ~HasKey(m.OneOfs, S) \/ M = "" THEN ret[1] = "nil"
            ELSE IF HasKey(m.Structs, M) /\ Len(fields) > 0
            THEN ret[1] = "&" \o prefixType(opts, M) \o "{\n\t\t\t"
                              \o Join(lines, ",\n\t\t\t") \o ",\n\t\t}"
            ELSE ret[1] = "&" \o prefixType(opts, M) \o "{}"

C6_Witness ==
    /\ Returned
    /\ arg.t = Named("oneof", "isA_B")
    /\ arg.structName = "User"
    /\ opts.TypePrefix = ""
    /\ ret[1] = "&A_X{\n\t\t\tEmailId: \"EmailId\",\n\t\t\tId: \"A_XID\",\n\t\t}"

\* C7: a primitive string field named ID or Id on record R gets "RID"; a
\* string field of any other name F gets "F".
C7_IdentifierField ==
    (Returned /\ arg.t.Kind = "primitive" /\ arg.t.Name = "string") =>
        ret[1] = IF arg.fieldName \in {"ID", "Id"}
                 THEN Quoted(arg.structName \o "ID")
                 ELSE Quoted(arg.fieldName)

C7_Witness ==
    /\ Returned
    /\ arg.t = Named("primitive", "string")
    /\ arg.fieldName = "iD"
    /\ ret[1] = "\"iD\""

\* The primitive TypeRefs the front-ends produce.
FrontEndPrimitives ==
    {resolveType(BasicType(n)) : n \in BasicNames}
    \cup {r \in {exprToTypeRef(Ident(n)) : n \in BasicNames} : r.Kind = "primitive"}

\* C8: a primitive TypeRef a front-end produces gets 1 when numeric, true
\* when bool, a quoted string when string, and never the nil fallback.
C8_PrimitiveDefaults ==
    (Returned /\ arg.t \in FrontEndPrimitives) =>
        /\ ret[1] # "nil"
        /\ arg.t.Name = "bool" => ret[1] = "true"
        /\ arg.t.Name = "string" =>
               ret[1] \in {Quoted(arg.fieldName), Quoted(arg.structName \o "ID")}
        /\ arg.t.Name \notin {"bool", "string", "Pointer"} => ret[1] = "1"

\* C10: a pointer whose element is unknown, or nil, gets nil in both styles.
C10_PointerToUnresolved ==
    (Returned /\ IsPointerToUnresolved(arg.t)) => ret[1] = "nil"

C10_Witness ==
    /\ Returned
    /\ arg.t = PointerTo(Named("unknown", ""))
    /\ ~opts.ModStyle
    /\ ret[1] = "nil"

\* The element of a pointer or slice TypeRef that has one.
ElemOf(t) == t.Elem[1]

IsRegisteredExternal(t) == t.Kind = "external" /\ t.Name \in {"Timestamp", "Time"}

C11_WitnessWrapped ==
    /\ Returned
    /\ \/ /\ arg.t = PointerTo(Named("struct", "User"))
          /\ opts = GenerateOptions("", "PB", FALSE)
          /\ ret[1] = "ptr(FixturePBUser())"
       \/ /\ arg.t = PointerTo(PointerTo(Named("enum", "Status")))
          /\ opts = GenerateOptions("", "", TRUE)
          /\ ret[1] = "ptr(*FixtureStatus())"

\* C12: an external TypeRef whose name is registered gets the registered
\* literal verbatim, directly and as the element of a pointer, in both
\* styles; an external whose name is not registered gets nil.
C12_ExternalLiteral ==
    Returned =>
        LET literal(n) == IF n = "Timestamp"
                          THEN "timestamppb.New(time.Date(2000, 1, 1, 0, 0, 0, 0, time.UTC))"
                          ELSE "time.Date(2000, 1, 1, 0, 0, 0, 0, time.UTC)"
        IN  /\ IsRegisteredExternal(arg.t) => ret[1] = literal(arg.t.Name)
            /\ (/\ arg.t.Kind = "pointer" /\ arg.t.Elem # NilElem
                /\ IsRegisteredExternal(ElemOf(arg.t)))
                   => ret[1] = literal(ElemOf(arg.t).Name)
            /\ (arg.t.Kind = "external" /\ ~IsRegisteredExternal(arg.t)) => ret[1] = "nil"

C12_Witness ==
    /\ Returned
    /\ arg.t = PointerTo(Named("external", "Timestamp"))
    /\ ~opts.ModStyle
    /\ ret[1] = "timestamppb.New(time.Date(2000, 1, 1, 0, 0, 0, 0, time.UTC))"

\* The package an external type of the registry is declared in: the
\* qualifier its registered import binds and its registered literal uses.
ExternalPackage(name) == IF name = "Timestamp" THEN "timestamppb" ELSE "time"

\* Whether the Go type a TypeRef stands for can be told from the TypeRef: not
\* for an unresolved type, a nil element or an unregistered external, and not
\* for a sum type under a type prefix (an unexported interface of another
\* package cannot be written).
RECURSIVE DeclaredTypeKnown(_, _)
DeclaredTypeKnown(t, o) ==
    CASE t.Kind = "primitive" -> t.Name \in BasicNames \ {"Pointer"}
      [] t.Kind \in {"struct", "enum", "typedef", "oneof"} ->
            /\ t.Name # ""
            /\ (t.Kind = "oneof" \/ HasIsPrefix(t.Name)) => o.TypePrefix = ""
      [] t.Kind = "external" -> IsRegisteredExternal(t)
      [] t.Kind \in {"pointer", "slice"} ->
            t.Elem # NilElem /\ DeclaredTypeKnown(ElemOf(t), o)
      [] OTHER -> FALSE

\* The Go type a TypeRef stands for, as it has to be written in the package
\* of the fixtures.
RECURSIVE DeclaredType(_, _)
DeclaredType(t, o) ==
    CASE t.Kind = "primitive" -> t.Name
      [] t.Kind \in {"struct", "enum", "typedef", "oneof"} ->
            IF o.TypePrefix # "" THEN o.TypePrefix \o "." \o t.Name ELSE t.Name
      [] t.Kind = "external" -> ExternalPackage(t.Name) \o "." \o t.Name
      [] t.Kind = "pointer" -> "*" \o DeclaredType(ElemOf(t), o)
      [] t.Kind = "slice" -> "[]" \o DeclaredType(ElemOf(t), o)

\* C13: a slice with element E gets "[]" + typeName(E) + "{" + synth(E) + "}",
\* one element synthesized with the field name and enclosing type of the slice
\* field, and the type written in front is the declared type of the element,
\* qualified by the type prefix when one is set.
C13_SequenceSynthesis ==
    (Returned /\ arg.t.Kind = "slice" /\ arg.t.Elem # NilElem) =>
        LET E == ElemOf(arg.t)
            synth == genValue(m, E, arg.fieldName, arg.structName, opts)
        IN  /\ ret[1] = "[]" \o typeName(E, opts) \o "{" \o synth \o "}"
            /\ DeclaredTypeKnown(E, opts) => typeName(E, opts) = DeclaredType(E, opts)

\* The part of C13 that is about the shape of the literal only.
C13_LiteralShape ==
    (Returned /\ arg.t.Kind = "slice" /\ arg.t.Elem # NilElem) =>
        LET E == ElemOf(arg.t)
            synth == genValue(m, E, arg.fieldName, arg.structName, opts)
        IN  /\ ret[1] = "[]" \o typeName(E, opts) \o "{" \o synth \o "}"
            /\ (DeclaredTypeKnown(E, opts) /\ collectExternalTypes(E) = {})
                   => typeName(E, opts) = DeclaredType(E, opts)

\* Field types built from primitive, struct, enum, typedef, pointer and
\* slice: primitives that have a default, named records, enumerations and
\* aliases, and pointers and slices of those.
RECURSIVE BuiltFromNamedKinds(_)
BuiltFromNamedKinds(t) ==
    CASE t.Kind = "primitive" -> t.Name \in NumericNames \cup {"string", "bool"}
      [] t.Kind \in {"struct", "enum", "typedef"} -> t.Name # "" /\ ~HasIsPrefix(t.Name)
      [] t.Kind \in {"pointer", "slice"} ->
            t.Elem # NilElem /\ BuiltFromNamedKinds(ElemOf(t))
      [] OTHER -> FALSE

IllTyped == "ill-typed"

\* Go assignability of a value of type T to a variable of type U, for the
\* types that occur here; an untyped constant converts to the basic types of
\* its kind.
Assignable(T, U) ==
    CASE T = IllTyped -> FALSE
      [] T = "untyped string" -> U = "string"
      [] T = "untyped bool" -> U = "bool"
      [] T = "untyped int" -> U \in NumericNames
      [] T = "untyped nil" -> StartsWith(U, "*") \/ StartsWith(U, "[]")
      [] OTHER -> T = U

\* The type a generic call infers for an untyped constant argument.
DefaultType(T) ==
    CASE T = "untyped string" -> "string"
      [] T = "untyped bool" -> "bool"
      [] T = "untyped int" -> "int"
      [] T = "untyped nil" -> IllTyped
      [] OTHER -> T

\* The Go type of a synthesized expression: a constructor call returns T in
\* classic style and *T in mod style, `*e` dereferences a pointer, `ptr(e)`
\* adds one pointer level, `[]U{e}` is a slice of U whose element must be
\* assignable to U.
RECURSIVE TypeOfExpr(_, _)
TypeOfExpr(e, o) ==
    LET call == "Fixture" \o o.FuncPrefix
    IN  CASE StartsWith(e, "*") ->
                LET T == TypeOfExpr(SubSeq(e, 2, Len(e)), o)
                IN  IF StartsWith(T, "*") THEN SubSeq(T, 2, Len(T)) ELSE IllTyped
          [] StartsWith(e, call) /\ EndsWith(e, "()") ->
                LET T == prefixType(o, SubSeq(e, Len(call) + 1, Len(e) - 2))
                IN  IF o.ModStyle THEN "*" \o T ELSE T
          [] StartsWith(e, "ptr(") /\ EndsWith(e, ")") ->
                LET T == DefaultType(TypeOfExpr(SubSeq(e, 5, Len(e) - 1), o))
                IN  IF T = IllTyped THEN IllTyped ELSE "*" \o T
          [] StartsWith(e, "[]") /\ EndsWith(e, "}") ->
                LET brace == Find(e, "{", 1)
                    U == SubSeq(e, 3, brace - 1)
                    T == TypeOfExpr(SubSeq(e, brace + 1, Len(e) - 1), o)
                IN  IF Assignable(T, U) THEN "[]" \o U ELSE IllTyped
          [] StartsWith(e, "\"") -> "untyped string"
          [] e = "true" -> "untyped bool"
          [] e = "1" -> "untyped int"
          [] e = "nil" -> "untyped nil"
          [] OTHER -> IllTyped

\* C27: type agreement of field values.  For every field type built from
\* primitive, struct, enum, typedef, pointer and slice, in both styles, the
\* synthesized expression has the declared type of the field (an untyped
\* constant counts as having the type it converts to).
C27_TypeAgreement ==
    (Returned /\ BuiltFromNamedKinds(arg.t)) =>
        Assignable(TypeOfExpr(ret[1], opts), DeclaredType(arg.t, opts))

\* The cases of C27 in which the expression does have the declared type:
\* classic style, or no pointer to a record, enumeration or alias anywhere in
\* the type, and no pointer to a basic type other than int, string and bool.
RECURSIVE AgreesByConstruction(_, _)
AgreesByConstruction(t, o) ==
    CASE t.Kind = "pointer" ->
            LET e == ElemOf(t)
            IN  /\ AgreesByConstruction(e, o)
                /\ e.Kind \in {"struct", "enum", "typedef"} => ~o.ModStyle
                /\ e.Kind = "primitive" => e.Name \in {"int", "string", "bool"}
      [] t.Kind = "slice" -> AgreesByConstruction(ElemOf(t), o)
      [] OTHER -> TRUE

C27_AgreementWhereItHolds ==
    (Returned /\ BuiltFromNamedKinds(arg.t) /\ AgreesByConstruction(arg.t, opts)) =>
        Assignable(TypeOfExpr(ret[1], opts), DeclaredType(arg.t, opts))

---------------------------------------------------------------------------
(* Properties of GenerateWithOptions (specification SpecGenerate).         *)

\* C3: two GenerateWithOptions calls on the same model, package name and
\* options return byte-identical text.
C3_RoundTripStability ==
    \A i, j \in 1..Len(outs) : Text(outs[i]) = Text(outs[j])

\* C9: the constructor emitted for an enumeration returns the first value,
\* in declaration order, that is not "_" or "EnforceVersion".
C9_EnumDefaultSelection ==
    \A c \in 1..Len(outs) : \A n \in DOMAIN m.Enums :
        LET out == outs[c]
            values == m.Enums[n].Values
            header == IF opts.ModStyle THEN modHeader(n, opts) ELSE classicHeader(n, opts)
            returns(v) == IF opts.ModStyle
                          THEN "\tvalue := " \o prefixType(opts, v) \o "\n"
                          ELSE "\treturn " \o prefixType(opts, v) \o "\n"
            Reserved == {"_", "EnforceVersion"}
        IN  \A i \in 1..Len(values) :
                (/\ out # <<StackOverflow>>
                 /\ values[i] \notin Reserved
                 /\ \A j \in 1..(i - 1) : values[j] \in Reserved)
                => /\ \E k \in 1..(Len(out) - 1) : out[k] = header
                   /\ \A k \in 1..(Len(out) - 1) :
                          out[k] = header => out[k + 1] = returns(values[i])

C9_Witness ==
    /\ Len(outs) > 0
    /\ HasKey(m.Enums, "Status")
    /\ m.Enums["Status"].Values = <<"_", "Status_ACTIVE", "Status_DONE">>
    /\ opts = GenerateOptions("pb", "", FALSE)
    /\ \E k \in 1..(Len(outs[1]) - 1) :
           /\ outs[1][k] = "func FixtureStatus() pb.Status {\n"
           /\ outs[1][k + 1] = "\treturn pb.Status_ACTIVE\n"

\* The positions at which sub occurs in str.
Occurrences(str, sub) ==
    {i \in 1..(Len(str) - Len(sub) + 1) : SubSeq(str, i, i + Len(sub) - 1) = sub}

\* Whether the text right before position i of str is pre.
Before(str, i, pre) == i > Len(pre) /\ SubSeq(str, i - Len(pre), i - 1) = pre

\* Whether the text from position i of str on starts with post.
From(str, i, post) == i + Len(post) - 1 <= Len(str) /\ SubSeq(str, i, i + Len(post) - 1) = post

\* The names of kind struct, enum or typedef a TypeRef mentions.
RECURSIVE NamesIn(_)
NamesIn(t) ==
    (IF t.Kind \in {"struct", "enum", "typedef"} /\ t.Name # "" THEN {t.Name} ELSE {})
    \cup (IF t.Elem # NilElem THEN NamesIn(ElemOf(t)) ELSE {})

\* The names of the types the constructors are for.
ConstructorNames(mm) ==
    DOMAIN mm.TypeDefs \cup DOMAIN mm.Structs
    \cup {n \in DOMAIN mm.Enums :
              \E i \in 1..Len(mm.Enums[n].Values) :
                  mm.Enums[n].Values[i] \notin {"_", "EnforceVersion"}}

\* Every record, enumeration and alias name, and every enum value that can
\* be a default, that the output for a model can mention.
WrittenNames(mm) ==
    DOMAIN mm.TypeDefs \cup DOMAIN mm.Structs \cup DOMAIN mm.Enums
    \cup ({mm.OneOfs[s] : s \in DOMAIN mm.OneOfs} \ {""})
    \cup (UNION {{mm.Enums[n].Values[i] : i \in 1..Len(mm.Enums[n].Values)} :
                     n \in DOMAIN mm.Enums} \ {"_", "EnforceVersion"})
    \cup UNION {UNION {NamesIn(mm.Structs[n].Fields[i].Type) :
                          i \in 1..Len(mm.Structs[n].Fields)} : n \in DOMAIN mm.Structs}

\* C15, stated of the output of the first call on a model (a later call has
\* the same arguments and returns one of the same texts): every emitted constructor
\* is named "Fixture" + f + T, every constructor call written in a field
\* value carries the same infix f, and
\* under a type prefix p every record, enumeration and alias name and every
\* enum value written in the output is qualified as p.Name.
C15_NamingOptions ==
    \A c \in {Len(outs)} \cap {1} :
        LET out == outs[c]
            p == opts.TypePrefix
            f == opts.FuncPrefix
            Q(n) == IF p = "" THEN n ELSE p \o "." \o n
            header(n) == IF opts.ModStyle
                         THEN "func Fixture" \o f \o n \o "(mods ...func(*" \o Q(n)
                                  \o ")) *" \o Q(n) \o " {\n"
                         ELSE "func Fixture" \o f \o n \o "() " \o Q(n) \o " {\n"
        IN  out # <<StackOverflow>> =>
              /\ \A n \in ConstructorNames(m) : \E k \in 1..Len(out) : out[k] = header(n)
              /\ \A k \in 1..Len(out) :
                    /\ StartsWith(out[k], "func ") =>
                          \/ out[k] = "func ptr[T any](v T) *T { return &v }\n\n"
                          \/ \E n \in ConstructorNames(m) : out[k] = header(n)
                    /\ \A i \in Occurrences(out[k], "Fixture") :
                          \E n \in WrittenNames(m) :
                              From(out[k], i, "Fixture" \o f \o n \o "(")
                    /\ p # "" =>
                          \A n \in WrittenNames(m) : \A i \in Occurrences(out[k], n) :
                              \/ Before(out[k], i, p \o ".")
                              \/ Before(out[k], i, "Fixture" \o f)
                              \/ \E q \in WrittenNames(m) \ {n} :
                                    \E j \in Occurrences(out[k], q) :
                                        j <= i /\ i + Len(n) <= j + Len(q)
                              \* a field name, or a string default
                              \/ Before(out[k], i, "\t") /\ From(out[k], i, n \o ": ")
                              \/ Before(out[k], i, "\"")

C15_Witness ==
    /\ Len(outs) > 0
    /\ opts = GenerateOptions("pb", "PB", TRUE)
    /\ \E k, j, l \in 1..Len(outs[1]) :
           /\ outs[1][k] = "func FixturePBEvent(mods ...func(*pb.Event)) *pb.Event {\n"
           /\ outs[1][j] = "\t\tStatus: *FixturePBStatus(),\n"
           /\ outs[1][l] = "\tvalue := pb.Status_ACTIVE\n"

\* The external types a TypeRef refers to, at any depth.
RECURSIVE ExternalsIn(_)
ExternalsIn(t) ==
    (IF t.Kind = "external" THEN {t.Name} ELSE {})
    \cup (IF t.Kind \in {"pointer", "slice"} /\ t.Elem # NilElem
          THEN ExternalsIn(ElemOf(t)) ELSE {})

\* The external types the fields of the records of a model refer to.
ExternalsOf(mm) ==
    UNION {UNION {ExternalsIn(mm.Structs[n].Fields[i].Type) :
                     i \in 1..Len(mm.Structs[n].Fields)} : n \in DOMAIN mm.Structs}

\* The lines of the import block of an output, <<>> when it has none.
ImportLines(out) ==
    LET open == {k \in 1..Len(out) : out[k] = "import (\n"}
        k == CHOOSE x \in open : TRUE
        close == CHOOSE j \in (k + 1)..Len(out) :
                     out[j] = ")\n\n" /\ \A i \in (k + 1)..(j - 1) : out[i] # ")\n\n"
    IN  IF open = {} THEN <<>> ELSE SubSeq(out, k + 1, close - 1)

\* C16: the import list of an output holds exactly the registered import of
\* every external type that a field of a record refers to, at any depth of
\* pointers and slices, and the required imports, each once; a model that
\* refers to no external type gets no import block.
C16_ImportBookkeeping ==
    \A c \in {Len(outs)} \ {0} :
        LET out == outs[c]
            used == ExternalsOf(m)
            registered(n) ==
                IF n = "Timestamp"
                THEN "timestamppb \"google.golang.org/protobuf/types/known/timestamppb\""
                ELSE "\"time\""
            expected == IF used = {} THEN {}
                        ELSE {"\"time\""} \cup {registered(n) : n \in used \cap {"Timestamp", "Time"}}
            lines == ImportLines(out)
        IN  out # <<StackOverflow>> =>
              /\ {lines[i] : i \in 1..Len(lines)} = {"\t" \o imp \o "\n" : imp \in expected}
              /\ Len(lines) = Cardinality(expected)
              /\ (used = {}) <=> (\A k \in 1..Len(out) : out[k] # "import (\n")
              /\ Cardinality({k \in 1..Len(out) : out[k] = "import (\n"}) <= 1

C16_Witness ==
    /\ Len(outs) > 0
    /\ HasKey(m.Structs, "Team")
    /\ ImportLines(outs[1]) =
           <<"\ttimestamppb \"google.golang.org/protobuf/types/known/timestamppb\"\n",
             "\t\"time\"\n">>

\* The chunks of an output that open the constructor of one of the names.
HeadersOf(out, names) ==
    {k \in 1..Len(out) :
        \E n \in names : StartsWith(out[k], "func Fixture" \o opts.FuncPrefix \o n \o "(")}

\* C19: in an output every alias constructor comes before every enumeration
\* constructor, and every enumeration constructor before every record
\* constructor, in both styles.
C19_EmissionOrder ==
    \A c \in {Len(outs)} \ {0} :
        LET out == outs[c]
            aliases == HeadersOf(out, DOMAIN m.TypeDefs)
            enumerations == HeadersOf(out, DOMAIN m.Enums)
            records == HeadersOf(out, DOMAIN m.Structs)
        IN  /\ \A a \in aliases : \A e \in enumerations : a < e
            /\ \A e \in enumerations : \A r \in records : e < r
            /\ \A a \in aliases : \A r \in records : a < r

C19_Witness ==
    /\ Len(outs) > 0
    /\ opts = GenerateOptions("", "", FALSE)
    /\ \E a, e, r \in 1..Len(outs[1]) :
           /\ a < e /\ e < r
           /\ outs[1][a] = "func FixtureCount() Count {\n"
           /\ outs[1][e] = "func FixtureColor() Color {\n"
           /\ outs[1][r] = "func FixtureUser() User {\n"

\* The constructor calls written in the field values of an output: the texts
\* "Fixture...(" outside of the func headers.
CallsIn(out) ==
    UNION {{SubSeq(out[k], i, Find(out[k], "(", i)) : i \in Occurrences(out[k], "Fixture")} :
              k \in {j \in 1..Len(out) : ~StartsWith(out[j], "func ")}}

\* C26: reference closure.  In the output of GenerateWithOptions every
\* constructor call written in a field value names a constructor that the
\* same output defines.
C26_ReferenceClosure ==
    \A c \in {Len(outs)} \cap {1} :
        outs[c] # <<StackOverflow>> =>
            \A call \in CallsIn(outs[c]) :
                \E h \in 1..Len(outs[c]) : StartsWith(outs[c][h], "func " \o call)

\* The chunks that open a constructor, in either style.
Constructors(out) ==
    {h \in 1..Len(out) : StartsWith(out[h], "func Fixture")}

\* The text "Fixture...(" a constructor is called by.
CalledAs(out, h) == SubSeq(out[h], Len("func ") + 1, Find(out[h], "(", 1))

\* The constructors that evaluating constructor h calls: Go evaluates every
\* field value of the literal, so every call written in the body is made.
Callees(out, h) ==
    {g \in Constructors(out) : CalledAs(out, g) \in CallsIn(BodyOf(out, h))}

\* The constructors called, directly or not, within at most n nested calls
\* of the ones in hs.
RECURSIVE CalledWithin(_, _, _)
CalledWithin(out, hs, n) ==
    IF n = 0 THEN {}
    ELSE LET direct == UNION {Callees(out, h) : h \in hs}
         IN  direct \cup CalledWithin(out, direct, n - 1)

\* C28: the emitted constructors terminate: in the output of
\* GenerateWithOptions no constructor is reached again from its own body
\* through the calls written in the field values.
C28_ConstructorsTerminate ==
    \A c \in {Len(outs)} \cap {1} :
        outs[c] # <<StackOverflow>> =>
            \A h \in Constructors(outs[c]) :
                h \notin CalledWithin(outs[c], {h}, Cardinality(Constructors(outs[c])))

---------------------------------------------------------------------------
(* Properties of GenerateFormattedWithOptions (specification SpecFormat).  *)

\* C21: GenerateFormattedWithOptions returns a nil error always; it returns
\* the text of GenerateWithOptions unchanged when the formatter fails on it,
\* and the formatted text otherwise.
C21_FormattingRecovered ==
    (Returned /\ outs # <<>>) =>
        LET out == outs[1]
            f == formatSource(out)
        IN  /\ err = <<>>
            /\ f.err # <<>> => ret[1] = Text(out)
            /\ f.err = <<>> => ret[1] = f.formatted

C21_Witness ==
    /\ Returned
    /\ pkgName = "my-pkg"
    /\ HasKey(m.Structs, "User")
    /\ err = <<>>
    /\ ret[1] = Text(outs[1])
    /\ StartsWith(ret[1], "package my-pkg\n\nfunc ptr[T any]")

\* A call on which the formatter succeeds and changes the text.
C21_WitnessFormatted ==
    /\ Returned
    /\ pkgName = "fixtures"
    /\ HasKey(m.Structs, "User")
    /\ ret[1] # Text(outs[1])
    /\ Find(ret[1], "\t\tID:   \"UserID\",\n\t\tName: \"Name\",\n\t\tAge:  1,\n", 1) > 0

---------------------------------------------------------------------------
(* Properties of concurrent generation (specification SpecConcurrent).     *)

\* What call c returns when no other call runs, on the model it was given.
ReturnsAsAlone(c) ==
    CASE c.kind = "GenValue" ->
            c.result = GenValue(c.given, c.arg.t, c.arg.fieldName, c.arg.structName)
      [] c.kind = "collectImports" ->
            c.result \in collectImports(c.given, opts.TypePrefix)
      [] OTHER ->
            /\ c.imports \in collectImports(c.given, opts.TypePrefix)
            /\ c.result.typedefOrder \in RangeOrders(DOMAIN c.given.TypeDefs)
            /\ c.result.enumOrder \in RangeOrders(DOMAIN c.given.Enums)
            /\ c.result.structOrder \in RangeOrders(DOMAIN c.given.Structs)
            /\ c.result.out =
                  GenerateWithOptions(c.given, pkgName, opts, c.imports,
                                      c.result.typedefOrder, c.result.enumOrder,
                                      c.result.structOrder)

\* C22: generation has no effect on its inputs.  While goroutines make
\* GenerateWithOptions, GenValue and collectImports calls, on the shared model
\* or on their own, the external type registry, the reserved field names and
\* the required imports stay as declared, every model stays as it was given
\* to the call, and every call that returns, returns what it returns alone.
C22_NoEffectOnInputs ==
    /\ ExternalTypes = DeclaredExternalTypes
    /\ ProtoInternalFields = DeclaredProtoInternalFields
    /\ RequiredImports = DeclaredRequiredImports
    /\ \A g \in Goroutines :
          LET c == calls[g]
          IN  /\ c # Idle => ModelOf(c) = c.given
              /\ c.pc = "done" => ReturnsAsAlone(c)

\* Two GenerateWithOptions calls on the shared model, the second one made and
\* finished between the two steps of the first.
C22_Witness ==
    /\ \A g \in Goroutines :
          /\ calls[g].pc = "done"
          /\ calls[g].kind = "GenerateWithOptions"
          /\ calls[g].shared
          /\ \E k \in 1..Len(calls[g].result.out) :
                StartsWith(calls[g].result.out[k], "func FixtureA_X(")
    /\ calls[2].during = {1}
    /\ m.OneOfs["isA_B"] = "A_X"

---------------------------------------------------------------------------
(* Properties of the emitted constructors (specification SpecConstruct).   *)

\* The call of the constructor came back with a reference.
ConstructorReturned == run.pc = "returned"

\* What C14 asks of a call that came back: every mutator was handed the
\* reference that is returned, and what it refers to is the default with the
\* mutators applied in the order supplied (the default itself for none).
ReflectsMutators ==
    /\ run.result # ""
    /\ Len(run.passed) = Len(run.mods)
    /\ \A i \in 1..Len(run.passed) : run.passed[i] = run.result
    /\ run.store[run.result].ref = ""
    /\ run.store[run.result].muts = run.mods

\* C14: every emitted mod-style constructor (record, enumeration, alias)
\* builds the default value, applies the mutators in the order supplied to a
\* reference to it, and returns that reference.
C14_ModConstructor ==
    /\ run.pc # "does not compile"
    /\ ConstructorReturned => ReflectsMutators

\* The same for the constructors of records and enumerations only.
C14_RecordAndEnumConstructors ==
    /\ (run.pc = "does not compile") =>
           \E n \in DOMAIN m.TypeDefs : run.header = modHeader(n, opts)
    /\ ConstructorReturned => ReflectsMutators

---------------------------------------------------------------------------
(* Properties of extraction (specification SpecExtract).                   *)

\* The declarations in the order the front-end traverses them.
FlatDecls == Flatten([i \in 1..Len(src) |-> src[i].Decls])

\* The structural match: some '_' of the parent name P of sum type S, at
\* position i, has R longer than P[:i], R start with P[:i], and '_' next in R.
StructuralMatch(R, S) ==
    LET P == SubSeq(S, 3, Len(S))
    IN  \E i \in 1..Len(P) :
            /\ SubSeq(P, i, i) = "_"
            /\ Len(R) > i - 1
            /\ SubSeq(R, 1, i - 1) = SubSeq(P, 1, i - 1)
            /\ SubSeq(R, i, i) = "_"

\* The records the front-end considers as members (ParseSource passes over
\* the unexported ones).
IsCandidate(d, S) ==
    /\ d.Shape = "StructType"
    /\ fe = "ParseSource" => ~IsUnexported(d.Name)
    /\ StructuralMatch(d.Name, S)

\* C17: on the same declarations the command line front-end (extractEnums,
\* extractOneOfs, extractStructs, resolveType) returns the model ParseSource
\* returns: the same records with the same ordered fields and field kinds,
\* the same enumerations and aliases, the same sum-type mapping.
C17_FrontEndEquivalence ==
    (pc = "done" /\ fe = "extract" /\ Len(src) = 1) =>
        LET parsed == ParseSource(src[1].Decls)
        IN  /\ m.Structs = parsed.Structs
            /\ m.Enums = parsed.Enums
            /\ m.TypeDefs = parsed.TypeDefs
            /\ m.OneOfs = parsed.OneOfs

\* The stepwise ParseSource of this specification ends in the model the
\* operator ParseSource gives.
ParseSourceSteps ==
    (pc = "done" /\ fe = "ParseSource") => m = ParseSource(src[1].Decls)

\* The names a struct declaration declares for its fields, in source order.
DeclaredFieldNames(d) == Flatten([i \in 1..Len(d.Fields) |-> d.Fields[i].Names])

\* The position of a name in a sequence of distinct names, 0 when absent.
PositionIn(names, n) ==
    IF \E i \in 1..Len(names) : names[i] = n
    THEN CHOOSE i \in 1..Len(names) : names[i] = n
    ELSE 0

\* C18: whatever the declarations are, no record of the model has a field
\* named state, unknownFields, sizeCache or EnforceVersion, with either
\* front-end, and the fields that are kept are in declaration order (the
\* command line front-end keeps every other named field).
C18_ReservedFieldsDropped ==
    \A n \in (IF m = NilModel THEN {} ELSE DOMAIN m.Structs) :
        LET fields == m.Structs[n].Fields
            d == CHOOSE x \in {FlatDecls[i] : i \in 1..Len(FlatDecls)} :
                     x.Name = n /\ x.Shape = "StructType"
            declared == DeclaredFieldNames(d)
            Reserved == {"state", "unknownFields", "sizeCache", "EnforceVersion"}
        IN  /\ \A i \in 1..Len(fields) :
                   /\ fields[i].Name \notin Reserved
                   /\ PositionIn(declared, fields[i].Name) > 0
            /\ \A i, j \in 1..Len(fields) :
                   i < j => PositionIn(declared, fields[i].Name)
                                < PositionIn(declared, fields[j].Name)
            /\ fe = "extract" =>
                   {fields[i].Name : i \in 1..Len(fields)}
                       = {declared[i] : i \in 1..Len(declared)} \ Reserved

C18_Witness ==
    /\ pc = "done"
    /\ fe = "extract"
    /\ HasKey(m.Structs, "A_Y")
    /\ [i \in 1..Len(m.Structs["A_Y"].Fields) |-> m.Structs["A_Y"].Fields[i].Name]
           = <<"At", "Lo", "Hi">>

\* The same declaration through ParseSource.
C18_WitnessParseSource ==
    /\ pc = "done"
    /\ fe = "ParseSource"
    /\ HasKey(m.Structs, "A_Y")
    /\ [i \in 1..Len(m.Structs["A_Y"].Fields) |-> m.Structs["A_Y"].Fields[i].Name]
           = <<"At", "Lo">>

\* ParseSource has returned.
ParseSourceReturned == fe = "ParseSource" /\ pc \in {"done", "failed"}

\* C20: when the source cannot be parsed ParseSource returns a nil model and
\* one non-nil error; when it returns a model the error is nil; a model is
\* never returned together with an error.
C20_AllOrNothing ==
    ParseSourceReturned =>
        /\ ("SyntaxError" \in DOMAIN src[1]) =>
               /\ m = NilModel
               /\ Len(err) = 1
               /\ err[1] = "parse error: " \o src[1].SyntaxError
        /\ m # NilModel => err = <<>>
        /\ ("SyntaxError" \notin DOMAIN src[1]) => m # NilModel

C20_Witness ==
    /\ ParseSourceReturned
    /\ Len(src[1].Decls) > 0
    /\ m = NilModel
    /\ err = <<"parse error: expected declaration">>

\* C23: a resolved sum-type entry is never replaced: once OneOfs[S] holds a
\* member name, no step of extraction (a later matching record, a later
\* interface declaration, a later file or package) changes or resets it.
C23_ResolvedEntryKept ==
    [][\A S \in (IF m = NilModel THEN {} ELSE DOMAIN m.OneOfs) :
          m.OneOfs[S] # "" =>
              /\ m' # NilModel
              /\ S \in DOMAIN m'.OneOfs
              /\ m'.OneOfs[S] = m.OneOfs[S]]_vars

\* The front-end is about to go over the declaration of a record.
AtRecord ==
    /\ m # NilModel
    /\ pos[2] <= Len(Decls)
    /\ Decls[pos[2]].Shape = "StructType"
    /\ \/ fe = "extract" /\ pc = "oneofs"
       \/ fe = "ParseSource" /\ pc = "pass2"

\* C24: the structural match rule.  When a front-end goes over a record R,
\* every unset sum type 'is'+P gets R as member exactly when some '_' of P, at
\* index i, has R longer than P[:i], R start with P[:i] and '_' next in R, and
\* stays unset otherwise; a sum type whose parent name has no '_' never gets
\* a member.
C24_StructuralMatchRule ==
    /\ [][AtRecord =>
            \A S \in DOMAIN m.OneOfs :
                m.OneOfs[S] = "" =>
                    m'.OneOfs[S] = IF StructuralMatch(Decls[pos[2]].Name, S)
                                   THEN Decls[pos[2]].Name ELSE ""]_vars
    /\ [](\A S \in (IF m = NilModel THEN {} ELSE DOMAIN m.OneOfs) :
             Find(S, "_", 3) = 0 => m.OneOfs[S] = "")

\* The rule of C24 for the records a front-end does test: all of them for
\* the command line, the exported ones for ParseSource.
C24_RuleOnTestedRecords ==
    [][(AtRecord /\ (fe = "ParseSource" => ~IsUnexported(Decls[pos[2]].Name))) =>
            \A S \in DOMAIN m.OneOfs :
                m.OneOfs[S] = "" =>
                    m'.OneOfs[S] = IF StructuralMatch(Decls[pos[2]].Name, S)
                                   THEN Decls[pos[2]].Name ELSE ""]_vars

\* The constants of type e that the packages declare, in source order, the
\* reserved names left out.
DeclaredValues(e) ==
    LET consts == Flatten([i \in 1..Len(src) |-> src[i].Consts])
        kept == SelectSeq(consts, LAMBDA c : c.Type = e /\ c.Name \notin {"_", "EnforceVersion"})
    IN  [i \in 1..Len(kept) |-> kept[i].Name]

\* C25: after extraction the Values of every enumeration list its constants
\* in source declaration order, so that the fixture default is the first
\* declared non-reserved constant on every run.
C25_DeclarationOrder ==
    (fe = "extract" /\ pc = "done") =>
        \A e \in DOMAIN m.Enums :
            /\ m.Enums[e].Values = DeclaredValues(e)
            /\ firstValue(m.Enums[e].Values) = DeclaredValues(e)[1]

\* C29: one member, one sum type: after extraction no record is the
\* canonical member of two distinct sum types.
C29_OneMemberOneSumType ==
    (pc = "done" /\ m # NilModel) =>
        \A S1, S2 \in DOMAIN m.OneOfs :
            (S1 # S2 /\ m.OneOfs[S1] # "") => m.OneOfs[S1] # m.OneOfs[S2]

\* C30: field completeness of ParseSource: the field sequence of every record
\* it stores holds every exported, non-reserved, named field of the
\* declaration exactly once and in declaration order, each name of a
\* declaration `A, B T` included.
C30_FieldCompleteness ==
    (fe = "ParseSource" /\ pc = "done") =>
        \A n \in DOMAIN m.Structs :
            LET fields == m.Structs[n].Fields
                d == CHOOSE x \in {FlatDecls[i] : i \in 1..Len(FlatDecls)} :
                         x.Name = n /\ x.Shape = "StructType"
                Reserved == {"state", "unknownFields", "sizeCache", "EnforceVersion"}
                expected == SelectSeq(DeclaredFieldNames(d),
                                      LAMBDA f : f \notin Reserved /\ ~IsUnexported(f))
            IN  [i \in 1..Len(fields) |-> fields[i].Name] = expected

\* C5: after extraction, every registered sum type that has a structurally
\* matching record is mapped to the first such record of the traversal,
\* wherever the interface is declared.
C5_CanonicalSelection ==
    pc = "done" =>
        \A S \in DOMAIN m.OneOfs :
            LET cand == {i \in 1..Len(FlatDecls) : IsCandidate(FlatDecls[i], S)}
            IN  cand # {} =>
                    m.OneOfs[S] = FlatDecls[CHOOSE i \in cand : \A j \in cand : i <= j].Name

====
